---- MODULE Spec2Model ----
(***************************************************************************)
(* A model of the Piper TTS service (akmasih/piper): the network allow-list *)
(* of app/config.py, the IP-filter middleware of app/main.py, the voice     *)
(* catalog of app/config.py, speech generation and the worker pool of       *)
(* app/tts_service.py, logging of app/log_config.py, the instrumentation of *)
(* app/metrics.py and app/main.py, the collector of app/monitoring.py and   *)
(* the startup, health check and shutdown of the service.                   *)
(*                                                                          *)
(* The module holds several specifications over the same variables, one    *)
(* per subsystem; each leaves the other subsystems' variables at their     *)
(* constructed values.                                                      *)
(*   SpecIP        - Settings.is_allowed_ip and the verify_backend_ip filter *)
(*   SpecCatalog   - VoiceCatalog.load_from_index and the catalog lookups   *)
(*   SpecReload    - load_voices called again on a loaded catalog           *)
(*   SpecGenerate  - the /piper/tts route and generate_speech               *)
(*   SpecLog       - setup_logging and cleanup_old_logs                     *)
(*   SpecPool      - the thread pool that runs piper, ffmpeg and downloads  *)
(*   SpecHttp      - the two instrumentation middlewares                    *)
(*   SpecHelpers   - the metric-mutation helpers of app/metrics.py          *)
(*   SpecCollector - TTSMetrics used by one caller                          *)
(*   SpecLocks     - TTSMetrics used by several threads                     *)
(*   SpecLife      - lifespan: construct, initialize, health, cleanup       *)
(***************************************************************************)
EXTENDS Integers, Sequences, FiniteSets, TLC

VARIABLES
    backend_ip,       \* settings.BACKEND_IP: the configured backend address ("" = none)
    requests,         \* number of HTTP requests the filter has seen
    last,             \* the last request and what the filter did with it
    handled,          \* number of requests passed on by call_next
    rejected,         \* number of requests answered 403 by the filter
    blocked_total,    \* TTS_BLOCKED_REQUESTS_TOTAL (metrics.py)
    ipcheck,          \* the last is_allowed_ip call: its argument and result
    file,             \* the voice index file {models_dir}/voice_index.json on disk
    languages,        \* settings.catalog.languages: the catalog, in insertion order
    voice_key_map,    \* settings.catalog._voice_key_map: canonical key -> coordinates
    load_result,      \* what the last load_voices() call returned ("none" before the first)
    read_index,       \* the file content the last load_voices() call was given
    call,             \* the catalog query a caller makes: its name and arguments
    query,            \* the last catalog query made, its result, and whether the
                      \* catalog has been loaded again since (fresh = FALSE)
    svc,              \* the TTS service: loaded_models and the configured MAX_TEXT_LENGTH
    job,              \* the generation request a client makes, and how it is made
    temp_dir,         \* the files in settings.TEMP_DIR
    gens,             \* number of generation calls so far
    resp,             \* the outcome of the last generation call
    failed,           \* the 500 answers so far, each with the exception text behind it
    logcfg,           \* log_config: _initialized, SERVER_NAME, the root logger's level
                      \* and handlers
    first_config,     \* logcfg as the first setup_logging call left it
    log_files,        \* the files in the log directory: name -> modification time
    cleaned,          \* the last cleanup_old_logs call: its arguments, the directory
                      \* before it, and what it returned
    executor,         \* self.executor: max_workers, the work queue and the busy workers
    callers,          \* the coroutines that submit work to the executor
    inflight,         \* the HTTP requests of the instrumented apps and where each is
    http,             \* the HTTP metrics of metrics.py and main.py
    helper,           \* the last call of a metric helper and how it ended
    collector,        \* monitoring.metrics: the TTSMetrics object and its lock
    threads,          \* the threads calling the collector and where each is
    seen,             \* what the last get_metrics call returned
    history,          \* the record_request calls since the last reset, and the clock
    tts_service,      \* main.tts_service: the service object, once constructed
    startup,          \* how far lifespan and initialize have come, and with what
    probe             \* the last health check: the service as it was, and the answer

ipvars == <<backend_ip, requests, last, handled, rejected, blocked_total, ipcheck>>
catvars == <<file, languages, voice_key_map, load_result, read_index>>
genvars == <<svc, job, temp_dir, gens, resp, failed>>
logvars == <<logcfg, first_config, log_files, cleaned>>
poolvars == <<executor, callers>>
httpvars == <<inflight, http, helper>>
tmvars == <<collector, threads, seen, history>>
lifevars == <<tts_service, startup, probe>>
runvars == <<poolvars, httpvars, tmvars, lifevars>>
oldvars == <<ipvars, catvars, call, query, genvars, logvars>>
vars == <<oldvars, runvars>>

----------------------------------------------------------------------------
(* Bounds and input sets                                                    *)

\* Number of HTTP requests in a run.
MaxRequests == 3

\* Number of optional arguments (locale, gender, voice, quality) a
\* resolve_voice call of SpecCatalog gives.
MaxGivenArgs == 2

\* Number of generation calls in a run.
MaxGenerations == 2

\* Coroutines that use the worker pool at the same time.
MaxCallers == 3

\* HTTP requests that pass the instrumentation middleware concurrently.
MaxInFlight == 2

\* Calls of metric helpers in a row.
MaxHelperCalls == 3

\* record_request calls on the collector, by kind: successes, failures with
\* a message and failures without one; and the threads that call it at once.
MaxSuccesses == 3
MaxFailures == 11
MaxSilentFailures == 1
MaxThreads == 3

\* Size of an index file of SpecCatalog: its languages, locales, voices and
\* quality entries together.
MaxNodes == 7

Loopback == {"127.0.0.1", "::1", "localhost"}

\* Client addresses: the loopback literals and two other hosts.
Addresses == Loopback \cup {"10.0.0.5", "10.0.0.9"}

\* Values of the BACKEND_IP environment variable; "" is the default (unset).
BackendAddresses == {"", "10.0.0.5", "::1"}

HealthPath == "/piper/health"
MetricsPath == "/piper/metrics"
GeneratePath == "/piper/tts/generate"
VoicesPath == "/piper/tts/voices"
Paths == {HealthPath, MetricsPath, GeneratePath, VoicesPath}

NoRequest == [path |-> "", client |-> "", status |-> 0, passed |-> FALSE]
NoCheck == [called |-> FALSE, client |-> "", result |-> FALSE]

----------------------------------------------------------------------------
(* Settings.is_allowed_ip (config.py)                                       *)

is_allowed_ip_NoLocalhost(backend, client_ip) ==
    IF backend = "" THEN TRUE
    ELSE IF client_ip \in {"127.0.0.1", "::1"} THEN TRUE
    ELSE client_ip = backend

is_allowed_ip(backend, client_ip) ==
    IF backend = "" THEN TRUE
    ELSE IF client_ip \in {"127.0.0.1", "::1", "localhost"} THEN TRUE
    ELSE client_ip = backend

\* A caller asks whether an address is allowed.
CallIsAllowedIp(client_ip) ==
    /\ ipcheck' = [called |-> TRUE, client |-> client_ip,
                   result |-> is_allowed_ip(backend_ip, client_ip)]
    /\ UNCHANGED <<backend_ip, requests, last, handled, rejected, blocked_total>>
    /\ UNCHANGED <<catvars, call, query, genvars, logvars, runvars>>

----------------------------------------------------------------------------
(* The blocked-request counter (metrics.py)                                 *)

\* track_blocked_request: increment_counter(TTS_BLOCKED_REQUESTS_TOTAL).
\* No code under app/ calls it; the filter of main.py does not.
track_blocked_request(counter) == counter + 1

----------------------------------------------------------------------------
(* The IP filter middleware verify_backend_ip (main.py)                     *)

\* The filter's decision: "next" = call_next(request), "forbidden" = 403.
filter_decision_NoExemption(path, client_ip, backend) ==
    IF client_ip # backend THEN "forbidden" ELSE "next"

filter_decision_AllowAll(path, client_ip, backend) == "next"

filter_decision(path, client_ip, backend) ==
    IF path \in {HealthPath, MetricsPath} /\ client_ip \in {"127.0.0.1", "::1"}
      THEN "next"
    ELSE IF client_ip # backend
      THEN "forbidden"
    ELSE "next"

\* One request through the middleware: either a 403 response built by the
\* filter itself, or the rest of the stack (call_next), which answers 200.
verify_backend_ip(path, client_ip) ==
    /\ requests < MaxRequests
    /\ requests' = requests + 1
    /\ LET d == filter_decision(path, client_ip, backend_ip) IN
         /\ last' = [path |-> path, client |-> client_ip,
                     status |-> IF d = "forbidden" THEN 403 ELSE 200,
                     passed |-> d = "next"]
         /\ handled' = IF d = "next" THEN handled + 1 ELSE handled
         /\ rejected' = IF d = "forbidden" THEN rejected + 1 ELSE rejected
    /\ UNCHANGED <<backend_ip, blocked_total, ipcheck>>
    /\ UNCHANGED <<catvars, call, query, genvars, logvars, runvars>>

----------------------------------------------------------------------------
(* The voice index file: a model of the JSON text json.load reads           *)

\* A JSON value where the loader expects an object is either an object
\* ("map": its members in file order, keys distinct), some other JSON value
\* ("bad": a list, string, number or null, on which .get/.items raises
\* AttributeError), or, for a member read with .get(key, {}), absent
\* ("missing": the default {} is used).
JMap(items) == [kind |-> "map", items |-> items]
JBad == [kind |-> "bad", items |-> <<>>]
JMissing == [kind |-> "missing", items |-> <<>>]

\* variant_data: {"model": ..., "config": ..., ...} or a non-object.
VariantData(model) == [kind |-> "map", model |-> model]
BadVariantData == [kind |-> "bad", model |-> ""]

\* voice_data: {"gender": ..., "qualities": {...}} or a non-object.  gender is
\* a string, GenderMissing (no such member) or GenderNotString (a number).
GenderMissing == "<missing>"
GenderNotString == "<not a string>"
VoiceData(gender, qualities) == [kind |-> "map", gender |-> gender, qualities |-> qualities]
BadVoiceData == [kind |-> "bad", gender |-> GenderMissing, qualities |-> JMissing]

\* locale_data: {"voices": {...}}; lang_data: {"locales": {...}};
\* data: {"languages": {...}}; each may be a non-object instead.
LocaleData(voices) == [kind |-> "map", voices |-> voices]
BadLocaleData == [kind |-> "bad", voices |-> JMissing]
LangData(locales) == [kind |-> "map", locales |-> locales]
BadLangData == [kind |-> "bad", locales |-> JMissing]
IndexData(langs) == [kind |-> "map", languages |-> langs]
BadIndexData == [kind |-> "bad", languages |-> JMissing]

\* The file on disk: present or not, JSON text that parses or not, its value.
IndexFile(data) == [exists |-> TRUE, parses |-> TRUE, data |-> data]
UnparsableFile == [exists |-> TRUE, parses |-> FALSE, data |-> BadIndexData]
AbsentFile == [exists |-> FALSE, parses |-> FALSE, data |-> BadIndexData]

\* The members of an object read with .get(key, {}) and iterated with .items().
Items(field) == IF field.kind = "map" THEN field.items ELSE <<>>

----------------------------------------------------------------------------
(* Enumerations and string conversions (config.py)                          *)

\* None, and the empty string: what Python's truth test treats as false.
NONE == ""

GenderValues == {"male", "female", "neutral"}
QualityValues == {"high", "medium", "low", "x_low"}

\* QUALITY_PRIORITY, best first.
QUALITY_PRIORITY_Reversed == <<"x_low", "low", "medium", "high">>

QUALITY_PRIORITY == <<"high", "medium", "low", "x_low">>

\* str.lower() on the strings of the model.
Lower(s) ==
    CASE s = "Female" -> "female"
      [] s = "MALE"   -> "male"
      [] s = "High"   -> "high"
      [] s = "LOW"    -> "low"
      [] OTHER        -> s

\* Gender(value) / Quality(value): the enum member, or ValueError; the member
\* is modelled by its value and the ValueError by NONE.
ParseGender(value) == IF value \in GenderValues THEN value ELSE NONE
ParseQuality(value) == IF value \in QualityValues THEN value ELSE NONE

\* The reverse-index key of load_from_index.
full_key(lang_code, locale_code, voice_name, quality_str) ==
    lang_code \o "_" \o locale_code \o "-" \o voice_name \o "-" \o quality_str

----------------------------------------------------------------------------
(* VoiceCatalog.load_from_index (config.py)                                 *)

\* The dataclasses, without their display-only fields (name, native_name,
\* display_name, description, config_file, sample_rate, speakers).
VoiceVariant(quality, model_file) == [quality |-> quality, model_file |-> model_file]
Voice(name, gender, variants) == [name |-> name, gender |-> gender, variants |-> variants]
Locale(code, voices) == [code |-> code, voices |-> voices]
Language(code, locales, default_locale) ==
    [code |-> code, locales |-> locales, default_locale |-> default_locale]

\* A dict keyed by a field of its values, kept as the sequence of its values
\* in insertion order: d[key] = value for a key not yet present.
Insert(dict, value) == Append(dict, value)

\* voice.variants[quality] = variant: a set of variants, one per quality.
SetVariant(variants, variant) ==
    {x \in variants : x.quality # variant.quality} \cup {variant}

\* self._voice_key_map[full_key] = coordinates.
SetKey(km, key, coords) == (key :> coords) @@ km

EmptyKeyMap == [k \in {} |-> <<>>]

\* Each Build* operator runs one of the nested for-loops from entry i on and
\* returns what the loop has built, the reverse index as it then stands, and
\* whether an exception ended it (err).
RECURSIVE BuildVariants(_, _, _, _, _, _, _)
BuildVariants(items, i, lang_code, locale_code, voice_name, variants, km) ==
    IF i > Len(items) THEN [err |-> FALSE, variants |-> variants, km |-> km]
    ELSE LET quality_str == items[i][1]
             variant_data == items[i][2]
         IN  IF ParseQuality(quality_str) = NONE
               THEN \* ValueError: logged, continue
                    BuildVariants(items, i + 1, lang_code, locale_code, voice_name,
                                  variants, km)
             ELSE IF variant_data.kind # "map"
               THEN \* variant_data.get raises
                    [err |-> TRUE, variants |-> variants, km |-> km]
             ELSE BuildVariants(items, i + 1, lang_code, locale_code, voice_name,
                    SetVariant(variants, VoiceVariant(quality_str, variant_data.model)),
                    SetKey(km, full_key(lang_code, locale_code, voice_name, quality_str),
                           <<lang_code, locale_code, voice_name, quality_str>>))

\* gender_str in [g.value for g in Gender] ? Gender(gender_str) : NEUTRAL
VoiceGender(gender) ==
    LET gender_str == Lower(IF gender = GenderMissing THEN "neutral" ELSE gender)
    IN  IF gender_str \in GenderValues THEN gender_str ELSE "neutral"

\* if voice.variants: locale.voices[voice_name] = voice
AttachVoice_Always(voices, voice) == Insert(voices, voice)

AttachVoice(voices, voice) ==
    IF voice.variants # {} THEN Insert(voices, voice) ELSE voices

RECURSIVE BuildVoices(_, _, _, _, _, _)
BuildVoices(items, i, lang_code, locale_code, voices, km) ==
    IF i > Len(items) THEN [err |-> FALSE, voices |-> voices, km |-> km]
    ELSE LET voice_name == items[i][1]
             voice_data == items[i][2]
         IN  IF \/ voice_data.kind # "map"                 \* voice_data.get raises
                \/ voice_data.gender = GenderNotString     \* .lower() raises
                \/ voice_data.qualities.kind = "bad"       \* .items() raises
               THEN [err |-> TRUE, voices |-> voices, km |-> km]
             ELSE LET r == BuildVariants(Items(voice_data.qualities), 1, lang_code,
                                         locale_code, voice_name, {}, km)
                      voice == Voice(voice_name, VoiceGender(voice_data.gender), r.variants)
                  IN  IF r.err THEN [err |-> TRUE, voices |-> voices, km |-> r.km]
                      ELSE BuildVoices(items, i + 1, lang_code, locale_code,
                                       AttachVoice(voices, voice), r.km)

\* if locale.voices: language.locales[locale_code] = locale
AttachLocale(locales, locale) ==
    IF locale.voices # <<>> THEN Insert(locales, locale) ELSE locales

RECURSIVE BuildLocales(_, _, _, _, _, _)
BuildLocales(items, i, lang_code, first_locale, locales, km) ==
    IF i > Len(items)
      THEN [err |-> FALSE, locales |-> locales, first_locale |-> first_locale, km |-> km]
    ELSE LET locale_code == items[i][1]
             locale_data == items[i][2]
             first == IF first_locale = NONE THEN locale_code ELSE first_locale
         IN  IF \/ locale_data.kind # "map"                \* locale_data.get raises
                \/ locale_data.voices.kind = "bad"         \* .items() raises
               THEN [err |-> TRUE, locales |-> locales, first_locale |-> first, km |-> km]
             ELSE LET r == BuildVoices(Items(locale_data.voices), 1, lang_code,
                                       locale_code, <<>>, km)
                  IN  IF r.err
                        THEN [err |-> TRUE, locales |-> locales, first_locale |-> first,
                              km |-> r.km]
                      ELSE BuildLocales(items, i + 1, lang_code, first,
                                        AttachLocale(locales, Locale(locale_code, r.voices)),
                                        r.km)

\* if language.locales: language.default_locale = first_locale;
\*                      self.languages[lang_code] = language
AttachLanguage(langs, lang_code, locales, first_locale) ==
    IF locales # <<>> THEN Insert(langs, Language(lang_code, locales, first_locale))
    ELSE langs

RECURSIVE BuildLanguages(_, _, _, _)
BuildLanguages(items, i, langs, km) ==
    IF i > Len(items) THEN [err |-> FALSE, languages |-> langs, km |-> km]
    ELSE LET lang_code == items[i][1]
             lang_data == items[i][2]
         IN  IF \/ lang_data.kind # "map"                  \* lang_data.get raises
                \/ lang_data.locales.kind = "bad"          \* .items() raises
               THEN [err |-> TRUE, languages |-> langs, km |-> km]
             ELSE LET r == BuildLocales(Items(lang_data.locales), 1, lang_code, NONE,
                                        <<>>, km)
                  IN  IF r.err THEN [err |-> TRUE, languages |-> langs, km |-> r.km]
                      ELSE BuildLanguages(items, i + 1,
                             AttachLanguage(langs, lang_code, r.locales, r.first_locale),
                             r.km)

\* The try block of load_from_index: json.load runs before the two clear()
\* calls; everything after them builds into the live catalog.  err: an
\* exception left the block.
load_from_index_try_KeepOld(f, langs, km) ==
    IF ~f.parses THEN [err |-> TRUE, languages |-> langs, km |-> km]
    ELSE IF f.data.kind # "map" \/ f.data.languages.kind = "bad"
      THEN [err |-> TRUE, languages |-> <<>>, km |-> EmptyKeyMap]
    ELSE BuildLanguages(Items(f.data.languages), 1, langs, km)

load_from_index_try(f, langs, km) ==
    IF ~f.parses THEN [err |-> TRUE, languages |-> langs, km |-> km]
    ELSE IF f.data.kind # "map" \/ f.data.languages.kind = "bad"
      THEN [err |-> TRUE, languages |-> <<>>, km |-> EmptyKeyMap]
    ELSE BuildLanguages(Items(f.data.languages), 1, <<>>, EmptyKeyMap)

\* load_from_index: the catalog and reverse index it leaves, and what the
\* caller gets: "true", "false" (except Exception: return False), or "raised"
\* for an exception that leaves the function.
load_from_index_NoExcept(f, langs, km) ==
    LET r == load_from_index_try(f, langs, km)
    IN  [ret |-> IF r.err THEN "raised" ELSE "true",
         languages |-> r.languages, km |-> r.km]

load_from_index(f, langs, km) ==
    LET r == load_from_index_try(f, langs, km)
    IN  [ret |-> IF r.err THEN "false" ELSE "true",
         languages |-> r.languages, km |-> r.km]

----------------------------------------------------------------------------
(* Settings.load_voices (config.py)                                         *)

\* if not self.voice_index_path.exists(): return False
\* return self.catalog.load_from_index(...)
load_voices_call(f, langs, km) ==
    IF ~f.exists THEN [ret |-> "false", languages |-> langs, km |-> km]
    ELSE load_from_index(f, langs, km)

load_voices ==
    /\ LET r == load_voices_call(file, languages, voice_key_map) IN
         /\ languages' = r.languages
         /\ voice_key_map' = r.km
         /\ load_result' = r.ret
    /\ read_index' = file
    /\ query' = [query EXCEPT !.fresh = FALSE]
    /\ UNCHANGED <<file, call, ipvars, genvars, logvars, runvars>>

----------------------------------------------------------------------------
(* Catalog lookups (config.py)                                              *)

\* An Optional[...] result: <<>> for None, <<x>> for x.
None == <<>>
Some(x) == <<x>>

\* dict.get on a dict kept as the sequence of its values.
GetByCode(dict, code) ==
    LET hits == SelectSeq(dict, LAMBDA e : e.code = code)
    IN  IF hits = <<>> THEN None ELSE Some(hits[1])

GetByName(dict, name) ==
    LET hits == SelectSeq(dict, LAMBDA e : e.name = name)
    IN  IF hits = <<>> THEN None ELSE Some(hits[1])

First(dict) == IF dict = <<>> THEN None ELSE Some(dict[1])

\* VoiceCatalog.get_language, Language.get_locale, Locale.get_voice
get_language(langs, code) == GetByCode(langs, code)
Language_get_locale(lang, code) == GetByCode(lang.locales, code)
Locale_get_voice(loc, name) == GetByName(loc.voices, name)

\* VoiceCatalog.get_locale, VoiceCatalog.get_voice
get_locale(langs, lang_code, locale_code) ==
    LET lang == get_language(langs, lang_code)
    IN  IF lang # None THEN Language_get_locale(lang[1], locale_code) ELSE None

get_voice(langs, lang_code, locale_code, voice_name) ==
    LET loc == get_locale(langs, lang_code, locale_code)
    IN  IF loc # None THEN Locale_get_voice(loc[1], voice_name) ELSE None

\* Language.get_default_locale
get_default_locale(lang) ==
    IF lang.default_locale # NONE
          /\ Language_get_locale(lang, lang.default_locale) # None
      THEN Language_get_locale(lang, lang.default_locale)
    ELSE First(lang.locales)

\* Locale.get_voices, Locale.get_default_voice
get_voices(loc, gender) ==
    IF gender # NONE THEN SelectSeq(loc.voices, LAMBDA v : v.gender = gender)
    ELSE loc.voices

get_default_voice(loc, gender) == First(get_voices(loc, gender))

\* Voice.available_qualities, Voice.best_quality, Voice.get_variant
VariantOf(voice, quality) == CHOOSE x \in voice.variants : x.quality = quality
Offers(voice, quality) == \E x \in voice.variants : x.quality = quality

available_qualities(voice) ==
    SelectSeq(QUALITY_PRIORITY, LAMBDA q : Offers(voice, q))

best_quality(voice) ==
    LET qualities == available_qualities(voice)
    IN  IF qualities # <<>> THEN qualities[1] ELSE NONE

get_variant_Strict(voice, quality) ==
    IF quality # NONE
      THEN IF Offers(voice, quality) THEN Some(VariantOf(voice, quality)) ELSE None
    ELSE LET best == best_quality(voice)
         IN  IF best # NONE THEN Some(VariantOf(voice, best)) ELSE None

get_variant(voice, quality) ==
    IF quality # NONE /\ Offers(voice, quality)
      THEN Some(VariantOf(voice, quality))
    ELSE LET best == best_quality(voice)
         IN  IF best # NONE THEN Some(VariantOf(voice, best)) ELSE None

\* Language.total_voices, VoiceCatalog.total_voices
RECURSIVE SumLens(_)
SumLens(locales) ==
    IF locales = <<>> THEN 0 ELSE Len(Head(locales).voices) + SumLens(Tail(locales))

RECURSIVE total_voices(_)
total_voices(langs) ==
    IF langs = <<>> THEN 0 ELSE SumLens(Head(langs).locales) + total_voices(Tail(langs))

----------------------------------------------------------------------------
(* VoiceCatalog.resolve_voice and find_by_voice_key (config.py)             *)

\* The result is None or the tuple (Language, Locale, Voice, VoiceVariant).
resolve_voice(langs, language, locale, gender, voice, quality) ==
    LET lang == get_language(langs, language) IN
    IF lang = None THEN None ELSE
    LET loc == IF locale # NONE THEN Language_get_locale(lang[1], locale)
               ELSE get_default_locale(lang[1]) IN
    IF loc = None THEN None ELSE
    \* Gender(gender.lower()), a ValueError leaves gender_enum = None
    LET gender_enum == IF gender # NONE THEN ParseGender(Lower(gender)) ELSE NONE
        v == IF voice # NONE THEN Locale_get_voice(loc[1], voice)
             ELSE get_default_voice(loc[1], gender_enum) IN
    IF v = None THEN None ELSE
    \* Quality(quality.lower()), a ValueError leaves quality_enum = None
    LET quality_enum == IF quality # NONE THEN ParseQuality(Lower(quality)) ELSE NONE
        variant == get_variant(v[1], quality_enum) IN
    IF variant = None THEN None ELSE
    <<lang[1], loc[1], v[1], variant[1]>>

find_by_voice_key(langs, km, voice_key) ==
    IF voice_key \in DOMAIN km
      THEN LET c == km[voice_key]
           IN  resolve_voice(langs, c[1], c[2], NONE, c[3], c[4])
    ELSE None

\* The caller's query, made on the live catalog.
GetVoice ==
    /\ call.op = "get_voice"
    /\ query' = [op |-> call.op, fresh |-> TRUE, args |-> call.args,
                 result |-> get_voice(languages, call.args[1], call.args[2], call.args[3])]
    /\ UNCHANGED <<catvars, call, ipvars, genvars, logvars, runvars>>

ResolveVoice ==
    /\ call.op = "resolve_voice"
    /\ query' = [op |-> call.op, fresh |-> TRUE, args |-> call.args,
                 result |-> resolve_voice(languages, call.args[1], call.args[2],
                                          call.args[3], call.args[4], call.args[5])]
    /\ UNCHANGED <<catvars, call, ipvars, genvars, logvars, runvars>>

FindByVoiceKey ==
    /\ call.op = "find_by_voice_key"
    /\ query' = [op |-> call.op, fresh |-> TRUE, args |-> call.args,
                 result |-> find_by_voice_key(languages, voice_key_map, call.args[1])]
    /\ UNCHANGED <<catvars, call, ipvars, genvars, logvars, runvars>>

\* The index file is replaced on disk (setup.sh regenerates it) after the
\* service has read the one before.
WriteIndex(f) ==
    /\ load_result # "none"
    /\ file = read_index
    /\ file' = f
    /\ UNCHANGED <<languages, voice_key_map, load_result, read_index, call, query, ipvars, genvars, logvars, runvars>>

NoCall == [op |-> "none", args |-> <<>>]
NoQuery == [op |-> "none", fresh |-> FALSE, args |-> <<>>, result |-> None]

----------------------------------------------------------------------------
(* Index files the specifications draw from                                 *)

Range(s) == {s[i] : i \in DOMAIN s}

\* The JSON objects over a set of <<key, value>> members: every sequence of
\* members with distinct keys (an object keeps its members in file order).
DistinctSeqs(members) ==
    UNION {{s \in [1..m -> members] :
               \A i, j \in 1..m : i # j => s[i][1] # s[j][1]}
           : m \in 0..Cardinality({p[1] : p \in members})}

\* The "gender" member the files give a voice: amy's is written with a
\* capital, the other voices have none.
GenderInFile(voice_name) == IF voice_name = "amy" THEN "Female" ELSE GenderMissing

\* A "qualities" object with the given quality strings, in the given order.
QualityItems(order, strs) ==
    LET chosen == SelectSeq(order, LAMBDA q : q \in strs)
    IN  [i \in DOMAIN chosen |-> <<chosen[i], VariantData(chosen[i] \o ".onnx")>>]

\* Every well-formed index over the given codes, names and quality strings.
WellFormedFiles(lang_codes, locale_codes, voice_names, quality_order) ==
    LET voices == {<<v, VoiceData(GenderInFile(v), JMap(QualityItems(quality_order, S)))>>
                     : v \in voice_names, S \in SUBSET Range(quality_order)}
        locales == {<<c, LocaleData(JMap(vs))>>
                     : c \in locale_codes, vs \in DistinctSeqs(voices)}
        langs == {<<l, LangData(JMap(cs))>>
                     : l \in lang_codes, cs \in DistinctSeqs(locales)}
    IN  {IndexFile(IndexData(JMap(ls))) : ls \in DistinctSeqs(langs)}

\* The number of languages, locales, voices and quality entries of a file.
RECURSIVE VoicesWeight(_)
VoicesWeight(items) ==
    IF items = <<>> THEN 0
    ELSE 1 + Len(Items(Head(items)[2].qualities)) + VoicesWeight(Tail(items))

RECURSIVE LocalesWeight(_)
LocalesWeight(items) ==
    IF items = <<>> THEN 0
    ELSE 1 + VoicesWeight(Items(Head(items)[2].voices)) + LocalesWeight(Tail(items))

RECURSIVE LangsWeight(_)
LangsWeight(items) ==
    IF items = <<>> THEN 0
    ELSE 1 + LocalesWeight(Items(Head(items)[2].locales)) + LangsWeight(Tail(items))

Weight(f) == LangsWeight(Items(f.data.languages))

\* Indexes of one language with two locales, two voices and two qualities.
LocaleCodes == {"US", "GB"}
VoiceNames == {"amy", "ryan"}
IndexFiles ==
    {f \in WellFormedFiles({"en"}, LocaleCodes, VoiceNames, <<"high", "low">>)
       : Weight(f) <= MaxNodes}

\* Indexes whose locale codes and voice names contain the "-" that
\* load_from_index puts between the parts of a key.
HyphenLocaleCodes == {"US", "US-a"}
HyphenVoiceNames == {"b", "a-b"}
HyphenFiles ==
    {f \in WellFormedFiles({"en"}, HyphenLocaleCodes, HyphenVoiceNames, <<"high">>)
       : Weight(f) <= MaxNodes}

\* The keys find_by_voice_key is asked for.
VoiceKeys ==
    {full_key("en", c, v, q) : c \in LocaleCodes, v \in VoiceNames,
                               q \in {"high", "low", "ultra"}}
    \cup {full_key("en", c, v, "high") : c \in HyphenLocaleCodes, v \in HyphenVoiceNames}

\* The queries the callers of SpecCatalog make.
Given(args) == Cardinality({i \in 2..5 : args[i] # NONE})

ResolveCalls ==
    {c \in {[op |-> "resolve_voice", args |-> <<"en", locale, gender, voice, quality>>]
             : locale \in LocaleCodes \cup {NONE},
               gender \in {NONE, "Female", "male", "robot"},
               voice \in VoiceNames \cup {NONE},
               quality \in {NONE, "high", "LOW", "ultra"}}
       : Given(c.args) <= MaxGivenArgs}

KeyCalls == {[op |-> "find_by_voice_key", args |-> <<k>>] : k \in VoiceKeys}

\* The queries the callers of SpecReload make.
VoiceCalls == {[op |-> "get_voice", args |-> <<l, "US", "amy">>] : l \in {"en", "de"}}

\* Indexes with malformed parts, for loading and reloading: one or two
\* languages, each with at most one locale and one voice.
ReloadVoiceDatas ==
    {VoiceData("male", JMap(q)) :
        q \in {<<>>,
               <<<<"high", VariantData("high.onnx")>>>>,
               <<<<"ultra", VariantData("ultra.onnx")>>>>,
               <<<<"ultra", VariantData("ultra.onnx")>>, <<"high", VariantData("high.onnx")>>>>,
               <<<<"high", BadVariantData>>>>,
               <<<<"ultra", BadVariantData>>>>,
               <<<<"low", VariantData("low.onnx")>>, <<"high", BadVariantData>>>>}}
    \cup {VoiceData("male", JBad), VoiceData("male", JMissing),
          VoiceData(GenderNotString, JMap(<<<<"high", VariantData("high.onnx")>>>>)),
          BadVoiceData}

ReloadLocaleDatas ==
    {LocaleData(JMap(<<<<"amy", v>>>>)) : v \in ReloadVoiceDatas}
    \cup {LocaleData(JMap(<<>>)), LocaleData(JBad), LocaleData(JMissing), BadLocaleData}

ReloadLangDatas ==
    {LangData(JMap(<<<<"US", c>>>>)) : c \in ReloadLocaleDatas}
    \cup {LangData(JMap(<<>>)), LangData(JBad), LangData(JMissing), BadLangData}

GoodLangData ==
    LangData(JMap(<<<<"US", LocaleData(JMap(<<<<"amy",
        VoiceData("female", JMap(<<<<"high", VariantData("high.onnx")>>>>))>>>>))>>>>))

ReloadFiles ==
    {IndexFile(IndexData(JMap(<<<<l, d>>>>))) : l \in {"en", "de"}, d \in ReloadLangDatas}
    \cup {IndexFile(IndexData(JMap(<<<<"en", GoodLangData>>, <<"de", d>>>>)))
            : d \in ReloadLangDatas}
    \cup {IndexFile(IndexData(JMap(<<<<"de", d>>, <<"en", GoodLangData>>>>)))
            : d \in ReloadLangDatas}
    \cup {IndexFile(IndexData(JMap(<<>>))), IndexFile(IndexData(JBad)),
          IndexFile(IndexData(JMissing)), IndexFile(BadIndexData),
          UnparsableFile, AbsentFile}

----------------------------------------------------------------------------
(* PiperTTSService.generate_speech (tts_service.py)                         *)

\* A text, by what the code looks at: its length and whether it is all
\* whitespace ("blank", the empty text included), free of surplus whitespace
\* ("plain") or carries one trailing space ("padded").
Text(len, kind) == [len |-> len, kind |-> kind]

\* A speed is kept in tenths: 5 is 0.5, 10 is 1.0, 20 is 2.0.

\* What the environment does during one generation: whether writing the text
\* file and the transcoder's input file succeeds, how the engine and the
\* transcoder end, and the text of the error or of the stderr output.
EngineOutcomes == {"ok", "nonzero", "timeout", "no_output"}
TranscoderOutcomes == {"ok", "nonzero", "timeout"}
ErrorTexts == {"No space left on device", "Killed"}
Envs ==
    [text_write : {"ok", "error"}, engine : EngineOutcomes,
     wav_write : {"ok", "error"}, ffmpeg : TranscoderOutcomes, errtext : ErrorTexts]

\* The name tempfile.NamedTemporaryFile gives a file: unique per call.
TempName(id, kind) == <<id, kind>>

\* finally: os.unlink(path) for every path that was recorded.
Unlink(files, paths) == files \ paths

\* 1.0 / speed, as the fraction <<numerator, denominator>>.
length_scale(speed) == <<10, speed>>

\* _run_piper.run_tts: the result or the exception raised, the temp directory
\* afterwards, whether the engine was started, with which text and length
\* scale, and how it ended.
run_tts(id, text, speed, env, files) ==
    LET txt == TempName(id, "txt")
        wav == TempName(id, "wav")
        nothing == [raised |-> TRUE, message |-> "", wav_data |-> "", files |-> files,
                    engine_started |-> FALSE, engine_text |-> Text(0, "blank"),
                    scale |-> <<0, 0>>, engine_exit |-> "none"]
    IN  IF env.text_write = "error"
          THEN \* text_file.write raises before text_file_path is assigned
               [nothing EXCEPT !.message = "TTS generation failed: " \o env.errtext,
                               !.files = Unlink(files \cup {txt}, {})]
        ELSE IF speed = 0
          THEN \* 1.0 / speed raises ZeroDivisionError
               [nothing EXCEPT !.message = "TTS generation failed: float division by zero",
                               !.files = Unlink(files \cup {txt, wav}, {txt, wav})]
        ELSE LET started == [nothing EXCEPT !.engine_started = TRUE,
                                            !.engine_text = text,
                                            !.engine_exit = env.engine,
                                            !.scale = IF speed # 10 THEN length_scale(speed)
                                                      ELSE <<1, 1>>,
                                            !.files = Unlink(files \cup {txt, wav}, {txt, wav})]
             IN  CASE env.engine = "nonzero" ->
                        [started EXCEPT !.message = "TTS generation failed: Piper failed: "
                                                       \o env.errtext]
                   [] env.engine = "timeout" ->
                        [started EXCEPT !.message = "TTS generation timeout"]
                   [] env.engine = "no_output" ->
                        \* exit status 0, the WAV file is as NamedTemporaryFile made it
                        [started EXCEPT !.raised = FALSE, !.wav_data = "empty"]
                   [] OTHER ->
                        [started EXCEPT !.raised = FALSE, !.wav_data = "audio"]

\* _convert_to_mp3_ffmpeg.convert.  ffmpeg does not produce an MP3 from an
\* empty input file.
convert(id, wav_data, env, files) ==
    LET wav == TempName(id, "wav2")
        mp3 == TempName(id, "mp3")
        nothing == [raised |-> TRUE, message |-> "", mp3_data |-> "", files |-> files]
        done == [nothing EXCEPT !.files = Unlink(files \cup {wav, mp3}, {wav, mp3})]
    IN  IF env.wav_write = "error"
          THEN \* wav_file.write raises before wav_file_path is assigned
               [nothing EXCEPT !.message = "MP3 conversion failed: " \o env.errtext,
                               !.files = Unlink(files \cup {wav}, {})]
        ELSE CASE env.ffmpeg = "timeout" ->
                    [done EXCEPT !.message = "MP3 conversion timeout"]
               [] env.ffmpeg = "nonzero" \/ wav_data = "empty" ->
                    [done EXCEPT !.message = "MP3 conversion failed: ffmpeg failed: "
                                                \o env.errtext]
               [] OTHER ->
                    [done EXCEPT !.raised = FALSE, !.mp3_data = "mp3"]

\* The messages of the two ValueErrors generate_speech raises.
LanguageNotAvailable(language) == "Language '" \o language \o "' is not available."
TextEmpty == "Text cannot be empty"

\* generate_speech: outcome "audio" (a BytesIO is returned), "ValueError" or
\* "Exception", with the exception's message.
generate_speech(id, text, language, speed, env, loaded_models, files) ==
    LET early == [outcome |-> "ValueError", message |-> "", files |-> files,
                  engine_started |-> FALSE, engine_text |-> Text(0, "blank"),
                  scale |-> <<0, 0>>, engine_exit |-> "none",
                  transcoder_invoked |-> FALSE]
    IN  IF language \notin loaded_models
          THEN [early EXCEPT !.message = LanguageNotAvailable(language)]
        ELSE IF text.kind = "blank"      \* not text.strip()
          THEN [early EXCEPT !.message = TextEmpty]
        ELSE LET p == run_tts(id, text, speed, env, files)
                 ran == [early EXCEPT !.engine_started = p.engine_started,
                                      !.engine_text = p.engine_text,
                                      !.scale = p.scale,
                                      !.engine_exit = p.engine_exit,
                                      !.files = p.files]
             IN  IF p.raised
                   THEN [ran EXCEPT !.outcome = "Exception", !.message = p.message]
                 ELSE LET c == convert(id, p.wav_data, env, p.files)
                          converted == [ran EXCEPT !.transcoder_invoked = TRUE,
                                                   !.files = c.files]
                      IN  IF c.raised
                            THEN [converted EXCEPT !.outcome = "Exception",
                                                   !.message = c.message]
                          ELSE [converted EXCEPT !.outcome = "audio"]

----------------------------------------------------------------------------
(* The generation route (main.py)                                           *)

\* Field(..., max_length=5000) of TTSRequest.text.
FieldMaxLength == 5000

\* The languages LANGUAGE_PATTERN admits (two of the fifteen), which are
\* also the configured SUPPORTED_LANGUAGES.
PatternLanguages == {"en", "fr"}
SUPPORTED_LANGUAGES == PatternLanguages

\* TTSRequest.clean_text: ' '.join(v.split()).
clean_text(text) ==
    IF text.kind = "padded" THEN Text(text.len - 1, "plain") ELSE text

\* The errors pydantic reports for a request body, as <<field, type>>: the
\* length constraints of the field come before its validator.
text_errors(text) ==
    IF text.len < 1 THEN {<<"text", "too_short">>}
    ELSE IF text.len > FieldMaxLength THEN {<<"text", "too_long">>}
    ELSE IF text.kind = "blank" THEN {<<"text", "value_error">>}
    ELSE {}

language_errors(language) ==
    IF language \notin PatternLanguages THEN {<<"language", "string_pattern_mismatch">>}
    ELSE {}

speed_errors(speed) ==
    IF speed < 5 THEN {<<"speed", "greater_than_equal">>}
    ELSE IF speed > 20 THEN {<<"speed", "less_than_equal">>}
    ELSE {}

TTSRequest_errors(req) ==
    text_errors(req.text) \cup language_errors(req.language) \cup speed_errors(req.speed)

\* A JSON error body: the fields of "details" that are not given are left at
\* "", {} or -1.
NoDetails ==
    [requested_language |-> "", available_languages |-> {}, provided_length |-> -1,
     max_length |-> -1, text_length |-> -1, language |-> ""]

Response(status, error, message, details) ==
    [status |-> status, body |-> [error |-> error, message |-> message, details |-> details]]

AudioResponse == Response(200, "", "audio/mpeg", NoDetails)

\* validation_exception_handler: the answer to a request pydantic rejects.
validation_exception_handler(errors, req, max_text_length) ==
    IF \E e \in errors : e[1] = "language"
      THEN Response(400, "unsupported_language",
                    "Language '" \o req.language \o "' is not supported",
                    [NoDetails EXCEPT !.requested_language = req.language,
                                      !.available_languages = SUPPORTED_LANGUAGES])
    ELSE IF <<"text", "too_short">> \in errors
      THEN Response(400, "text_too_short", "Text cannot be empty",
                    [NoDetails EXCEPT !.max_length = max_text_length])
    ELSE IF <<"text", "too_long">> \in errors
      THEN Response(400, "text_too_long",
                    "Text exceeds maximum length of " \o ToString(max_text_length)
                       \o " characters",
                    [NoDetails EXCEPT !.max_length = max_text_length,
                                      !.provided_length = req.text.len])
    ELSE IF \E e \in errors : e[1] = "speed"
      THEN Response(400, "invalid_speed", "Speed value is out of range", NoDetails)
    ELSE Response(400, "validation_error", "Request validation failed", NoDetails)

\* "not available" in error_message, "empty" in error_message.lower(), for
\* the messages of the model.
MentionsNotAvailable(message) ==
    \E l \in PatternLanguages \cup {"xx"} : message = LanguageNotAvailable(l)
MentionsEmpty(message) == message = TextEmpty

\* The except branches of the route: the answer to a failed generate_speech.
error_response_Echo(r, req, loaded_models) ==
    Response(500, "generation_failed", r.message,
             [NoDetails EXCEPT !.language = req.language, !.text_length = req.text.len])

error_response(r, req, loaded_models) ==
    IF r.outcome = "ValueError"
      THEN IF MentionsNotAvailable(r.message)
             THEN Response(400, "unsupported_language", r.message,
                           [NoDetails EXCEPT !.requested_language = req.language,
                                             !.available_languages = loaded_models])
           ELSE IF MentionsEmpty(r.message)
             THEN Response(400, "invalid_text", r.message,
                           [NoDetails EXCEPT !.text_length = req.text.len])
           ELSE Response(400, "invalid_request", r.message, NoDetails)
    ELSE Response(500, "generation_failed",
                  "Speech generation failed due to an internal error",
                  [NoDetails EXCEPT !.language = req.language, !.text_length = req.text.len])

NotCalled ==
    [outcome |-> "none", message |-> "", files |-> {}, engine_started |-> FALSE,
     engine_text |-> Text(0, "blank"), scale |-> <<0, 0>>, engine_exit |-> "none",
     transcoder_invoked |-> FALSE]

\* POST /piper/tts/generate: request validation, then the route handler with
\* the validated (cleaned) text.  The lifespan sets tts_service before the
\* first request is served.
post_generate(id, req, env, service, files) ==
    LET errors == TTSRequest_errors(req) IN
    IF errors # {}
      THEN [response |-> validation_exception_handler(errors, req, service.max_text_length),
            call |-> [NotCalled EXCEPT !.files = files]]
    ELSE LET request == [req EXCEPT !.text = clean_text(req.text)]
             r == generate_speech(id, request.text, request.language, request.speed, env,
                                  service.loaded_models, files)
         IN  [response |-> IF r.outcome = "audio" THEN AudioResponse
                           ELSE error_response(r, request, service.loaded_models),
              call |-> r]

NoResponse == Response(0, "", "", NoDetails)

\* A client posts the request to the route.
PostGenerate ==
    /\ job.via = "route"
    /\ gens < MaxGenerations
    /\ gens' = gens + 1
    /\ \E env \in Envs :
         LET o == post_generate(gens + 1, job, env, svc, temp_dir) IN
           /\ resp' = [response |-> o.response, call |-> o.call]
           /\ temp_dir' = o.call.files
           /\ failed' = IF o.response.status = 500
                          THEN failed \cup {<<o.call.message, o.response.body>>}
                        ELSE failed
    /\ UNCHANGED <<svc, job, ipvars, catvars, call, query, logvars, runvars>>

\* A caller inside the service calls generate_speech itself.
CallGenerateSpeech ==
    /\ job.via = "service"
    /\ gens < MaxGenerations
    /\ gens' = gens + 1
    /\ \E env \in Envs :
         LET r == generate_speech(gens + 1, job.text, job.language, job.speed, env,
                                  svc.loaded_models, temp_dir) IN
           /\ resp' = [response |-> NoResponse, call |-> r]
           /\ temp_dir' = r.files
    /\ UNCHANGED <<svc, job, failed, ipvars, catvars, call, query, logvars, runvars>>

NoJob == [via |-> "none", text |-> Text(0, "blank"), language |-> "", speed |-> 10]
NoService == [loaded_models |-> {}, max_text_length |-> FieldMaxLength]
NoOutcome == [response |-> NoResponse, call |-> NotCalled]

\* The requests and configurations SpecGenerate draws from.
Texts ==
    {Text(0, "blank"), Text(3, "blank"), Text(101, "padded")}
    \cup {Text(n, "plain") : n \in {1, 100, 101, FieldMaxLength, FieldMaxLength + 1}}
Speeds == {0, 1, 5, 10, 20, 30}
RequestLanguages == PatternLanguages \cup {"xx"}
Jobs ==
    [via : {"route", "service"}, text : Texts, language : RequestLanguages, speed : Speeds]
Services == [loaded_models : {{}, {"en"}}, max_text_length : {100, FieldMaxLength}]

----------------------------------------------------------------------------
(* log_config.py: setup_logging and cleanup_old_logs                        *)

\* The module's defaults, as the environment leaves them.
LOG_LEVEL == "INFO"
SERVER_NAME == "piper"
LOG_RETENTION_DAYS == 14

\* str.upper() on the level names of the model.
Upper(s) ==
    CASE s = "debug"        -> "DEBUG"
      [] s = "error"        -> "ERROR"
      [] s = "verbose"      -> "VERBOSE"
      [] s = "basic_format" -> "BASIC_FORMAT"
      [] OTHER              -> s

\* getattr(logging, level, logging.INFO): the numeric level, INFO for a name
\* the logging module does not have.  logging.BASIC_FORMAT is the module's
\* format string: root.setLevel raises ValueError("Unknown level") on it.
IsFormatString(level) == level = "BASIC_FORMAT"
numeric_level(level) ==
    CASE level = "DEBUG"   -> 10
      [] level = "INFO"    -> 20
      [] level = "WARNING" -> 30
      [] level = "ERROR"   -> 40
      [] OTHER             -> 20

\* The logging state before setup_logging: the root logger of the standard
\* library, at WARNING and without handlers.
Unconfigured ==
    [initialized |-> FALSE, server_name |-> SERVER_NAME, level |-> 30, handlers |-> <<>>]

\* setup_logging past its _initialized check: the state it leaves and whether
\* it raised.  file_ok: the log directory and file can be created.
configure(cfg, server_name, log_level, file_ok) ==
    LET server == IF server_name # NONE THEN server_name ELSE cfg.server_name
        level == Upper(IF log_level # NONE THEN log_level ELSE LOG_LEVEL)
    IN  IF IsFormatString(level)
          THEN [raised |-> TRUE, cfg |-> [cfg EXCEPT !.server_name = server]]
        ELSE [raised |-> FALSE,
              cfg |-> [initialized |-> TRUE, server_name |-> server,
                       level |-> numeric_level(level),
                       handlers |-> IF file_ok THEN <<"stdout", "file">>
                                    ELSE <<"stdout">>]]

setup_logging(cfg, server_name, log_level, file_ok) ==
    IF cfg.initialized THEN [raised |-> FALSE, cfg |-> cfg]
    ELSE configure(cfg, server_name, log_level, file_ok)

\* What the first setup_logging call left, once there was one.
NoFirstConfig == [called |-> FALSE, after_first |-> Unconfigured]

SetupLogging(server_name, log_level, file_ok) ==
    LET r == setup_logging(logcfg, server_name, log_level, file_ok) IN
      /\ logcfg' = r.cfg
      /\ first_config' =
           [called |-> TRUE,
            after_first |-> IF first_config.called THEN first_config.after_first ELSE r.cfg]
      /\ UNCHANGED <<log_files, cleaned, ipvars, catvars, call, query, genvars, runvars>>

\* The time of the cleanup calls, in seconds.
Now == 30 * 86400

\* glob {log_dir}/*.log*, on the file names of the model.
MatchesLogPattern(name) == name \in {"piper.log", "piper.log.1"}

\* An Optional[int] argument.
NoDays == [given |-> FALSE, days |-> 0]
Days(n) == [given |-> TRUE, days |-> n]

\* retention_days or LOG_RETENTION_DAYS
retention_or_default(retention_days) ==
    IF retention_days.given /\ retention_days.days # 0 THEN retention_days.days
    ELSE LOG_RETENTION_DAYS

\* The for-loop over glob's result from entry i on: the directory and the
\* count as the loop leaves them.  os.remove of the file `failing` raises,
\* which ends the loop in the except branch.
RECURSIVE RemoveOld(_, _, _, _, _, _)
RemoveOld(order, i, files, cutoff, failing, deleted) ==
    IF i > Len(order) THEN [files |-> files, deleted |-> deleted]
    ELSE IF files[order[i]] < cutoff
      THEN IF order[i] = failing THEN [files |-> files, deleted |-> deleted]
           ELSE RemoveOld(order, i + 1,
                          [n \in DOMAIN files \ {order[i]} |-> files[n]],
                          cutoff, failing, deleted + 1)
    ELSE RemoveOld(order, i + 1, files, cutoff, failing, deleted)

cleanup_old_logs(files, retention_days, order, failing) ==
    LET days == retention_or_default(retention_days)
        cutoff == Now - (days * 86400)
    IN  RemoveOld(order, 1, files, cutoff, failing, 0)

\* The orders glob may list the matching files in.
GlobOrders(files) ==
    LET names == {n \in DOMAIN files : MatchesLogPattern(n)}
    IN  {s \in [1..Cardinality(names) -> names] : \A i, j \in DOMAIN s : i # j => s[i] # s[j]}

NeverCleaned ==
    [called |-> FALSE, retention_days |-> NoDays, before |-> <<>>, failing |-> "",
     returned |-> 0]

CleanupOldLogs(retention_days, failing) ==
    /\ \E order \in GlobOrders(log_files) :
         LET r == cleanup_old_logs(log_files, retention_days, order, failing) IN
           /\ log_files' = r.files
           /\ cleaned' = [called |-> TRUE, retention_days |-> retention_days,
                          before |-> log_files, failing |-> failing,
                          returned |-> r.deleted]
    /\ UNCHANGED <<logcfg, first_config, ipvars, catvars, call, query, genvars, runvars>>

\* The arguments and directories SpecLog draws from.
ServerNames == {NONE, "piper-2"}
LevelArgs == {NONE, "debug", "ERROR", "verbose", "basic_format"}
RetentionArgs == {NoDays, Days(0), Days(1), Days(14)}
LogFileNames == {"piper.log", "piper.log.1", "notes.txt"}
Ages == {86400, 86401, 14 * 86400, 14 * 86400 + 1}
LogDirs ==
    {d \in UNION {[names -> {Now - a : a \in Ages}] : names \in SUBSET LogFileNames}
       : "notes.txt" \in DOMAIN d => d["notes.txt"] = Now - (14 * 86400 + 1)}

----------------------------------------------------------------------------
(* tts_service.py: the worker pool                                          *)

\* The blocking functions a coroutine hands to self.executor, in order:
\* generate_speech runs run_tts and then convert, initialize runs download.
Stages(kind) ==
    IF kind = "generate_speech" THEN <<"run_tts", "convert">> ELSE <<"download">>

\* ThreadPoolExecutor(max_workers=settings.WORKER_THREADS): a worker thread
\* takes the next work item only when fewer than max_workers are busy.
FreeWorker_Always(ex) == TRUE

FreeWorker(ex) == Cardinality(ex.busy) < ex.max_workers

\* The external processes that are running: one per caller inside
\* subprocess.run.
Processes == {c \in DOMAIN callers : callers[c].at = "process"}

\* await loop.run_in_executor(self.executor, f): the work item is queued.
RunInExecutor(c) ==
    /\ callers[c].at = "ready"
    /\ callers' = [callers EXCEPT ![c].at = "queued"]
    /\ executor' = [executor EXCEPT !.queue = Append(@, c)]
    /\ UNCHANGED <<oldvars, httpvars, tmvars, lifevars>>

\* A worker thread takes the oldest work item and starts the function.
WorkerTakes ==
    /\ executor.queue # <<>>
    /\ FreeWorker(executor)
    /\ LET c == Head(executor.queue) IN
         /\ executor' = [executor EXCEPT !.queue = Tail(@), !.busy = @ \cup {c}]
         /\ callers' = [callers EXCEPT ![c].at = "worker"]
    /\ UNCHANGED <<oldvars, httpvars, tmvars, lifevars>>

\* The function reaches subprocess.run: the external process starts.
SubprocessRun(c) ==
    /\ callers[c].at = "worker"
    /\ callers' = [callers EXCEPT ![c].at = "process"]
    /\ UNCHANGED <<executor, oldvars, httpvars, tmvars, lifevars>>

\* The process exits or is killed at its timeout; the function returns or
\* raises, the worker is free, and the coroutine goes on to its next stage
\* if the function returned.
FunctionEnds(c, raised) ==
    /\ callers[c].at = "process"
    /\ executor' = [executor EXCEPT !.busy = @ \ {c}]
    /\ LET me == callers[c] IN
         callers' = [callers EXCEPT ![c] =
           IF raised \/ me.stage = Len(Stages(me.kind))
             THEN [me EXCEPT !.at = "done"]
           ELSE [me EXCEPT !.stage = me.stage + 1, !.at = "ready"]]
    /\ UNCHANGED <<oldvars, httpvars, tmvars, lifevars>>

NoExecutor == [max_workers |-> 4, queue |-> <<>>, busy |-> {}]
NoCallers == <<>>

\* The configurations and callers SpecPool draws from.
WorkerThreads == {1, 2}
CallerKinds == {"generate_speech", "initialize"}

----------------------------------------------------------------------------
(* metrics.py and main.py: request instrumentation and metric helpers       *)

\* normalize_path: the path split at "/", empty parts dropped, joined again.
normalize_path(path) ==
    CASE path = "/metrics/"      -> "/metrics"
      [] path = "//metrics"      -> "/metrics"
      [] path = "/piper/health/" -> "/piper/health"
      [] path = ""               -> "/"
      [] OTHER                   -> path

get_status_class(status_code) ==
    IF 200 <= status_code /\ status_code < 300 THEN "2xx"
    ELSE IF 300 <= status_code /\ status_code < 400 THEN "3xx"
    ELSE IF 400 <= status_code /\ status_code < 500 THEN "4xx"
    ELSE "5xx"

\* if path == "/metrics": return await call_next(request)
IsScrapePath_Never(path) == FALSE

IsScrapePath(path) == path = "/metrics"

\* Gauge.inc() and Gauge.dec()
Inc(value) == value + 1
Dec_Nothing(value) == value

Dec(value) == value - 1

\* A handler's outcome: the status of its response, or an exception.
Raises == [raised |-> TRUE, status_code |-> 0]
Returns(status_code) == [raised |-> FALSE, status_code |-> status_code]

\* prometheus_middleware up to call_next.
prometheus_enter(h, req) ==
    IF IsScrapePath(normalize_path(req.path)) THEN h
    ELSE [h EXCEPT !.HTTP_REQUESTS_IN_PROGRESS[req.method] = Inc(@)]

\* prometheus_middleware after call_next: the finally block.  A metric is
\* kept as the sequence of the label sets it was incremented or observed for.
prometheus_leave(h, req, outcome) ==
    LET path == normalize_path(req.path)
        status_code == IF outcome.raised THEN 500 ELSE outcome.status_code
    IN  IF IsScrapePath(path) THEN h
        ELSE [h EXCEPT
                !.HTTP_REQUESTS_TOTAL =
                    Append(@, <<req.method, path, get_status_class(status_code)>>),
                !.HTTP_REQUEST_DURATION_SECONDS = Append(@, <<req.method, path>>),
                !.HTTP_REQUESTS_IN_PROGRESS[req.method] = Dec(@)]

\* metrics_middleware of main.py up to call_next, and after it.
metrics_enter(h, req) == [h EXCEPT !.ACTIVE_REQUESTS = Inc(@)]

metrics_leave(h, req, outcome) ==
    IF outcome.raised THEN [h EXCEPT !.ACTIVE_REQUESTS = Dec(@)]
    ELSE [h EXCEPT
            !.REQUEST_COUNT = Append(@, <<req.method, req.path, outcome.status_code>>),
            !.REQUEST_DURATION = Append(@, <<req.method, req.path>>),
            !.ACTIVE_REQUESTS = Dec(@)]

\* A request enters the middleware of its app and awaits call_next.
Enter(r) ==
    /\ inflight[r].at = "new"
    /\ http' = IF inflight[r].app = "setup_metrics" THEN prometheus_enter(http, inflight[r])
               ELSE metrics_enter(http, inflight[r])
    /\ inflight' = [inflight EXCEPT ![r].at = "call_next"]
    /\ UNCHANGED <<helper, oldvars, poolvars, tmvars, lifevars>>

\* call_next returns a response or raises; the middleware finishes.
Leave(r, outcome) ==
    /\ inflight[r].at = "call_next"
    /\ http' = IF inflight[r].app = "setup_metrics"
                 THEN prometheus_leave(http, inflight[r], outcome)
               ELSE metrics_leave(http, inflight[r], outcome)
    /\ inflight' = [inflight EXCEPT ![r].at = "done", ![r].outcome = outcome]
    /\ UNCHANGED <<helper, oldvars, poolvars, tmvars, lifevars>>

\* increment_counter, observe_histogram, set_gauge: try: ... except Exception.
Safely(fails) == "returned"

\* The helpers built on them, and increment_active_generations and
\* decrement_active_generations, which touch the gauge directly.
SafeHelpers ==
    {"increment_counter", "observe_histogram", "set_gauge",
     "track_tts_request", "track_text_length", "track_audio_size",
     "track_voice_usage", "set_active_generations", "set_catalog_stats",
     "track_tts_error", "track_blocked_request"}
DirectHelpers == {"increment_active_generations", "decrement_active_generations"}

helper_outcome(name, fails) ==
    IF name \in DirectHelpers THEN (IF fails THEN "raised" ELSE "returned")
    ELSE Safely(fails)

\* What a helper that got as far as the gauge does to TTS_ACTIVE_GENERATIONS.
helper_effect(name, fails, gauge) ==
    IF fails THEN gauge
    ELSE CASE name = "increment_active_generations" -> Inc(gauge)
           [] name = "decrement_active_generations" -> Dec(gauge)
           [] name = "set_active_generations"       -> 0
           [] OTHER                                 -> gauge

\* A helper is called; fails: the operation on the metric raises.
CallHelper(name, fails) ==
    /\ helper.calls < MaxHelperCalls
    /\ helper' = [name |-> name, fails |-> fails, calls |-> helper.calls + 1,
                  outcome |-> helper_outcome(name, fails)]
    /\ http' = [http EXCEPT !.TTS_ACTIVE_GENERATIONS = helper_effect(name, fails, @)]
    /\ UNCHANGED <<inflight, oldvars, poolvars, tmvars, lifevars>>

Methods == {"GET", "POST"}
NoMetrics ==
    [HTTP_REQUESTS_IN_PROGRESS |-> [m \in Methods |-> 0],
     HTTP_REQUESTS_TOTAL |-> <<>>,
     HTTP_REQUEST_DURATION_SECONDS |-> <<>>,
     TTS_ACTIVE_GENERATIONS |-> 0,
     ACTIVE_REQUESTS |-> 0,
     REQUEST_COUNT |-> <<>>,
     REQUEST_DURATION |-> <<>>]
NoHelper == [name |-> "none", fails |-> FALSE, calls |-> 0, outcome |-> "returned"]
NoOutcomeYet == Returns(0)

\* The requests and outcomes SpecHttp draws from.
Apps == {"setup_metrics", "main"}
RequestPaths == {"/metrics", "/metrics/", "/piper/health", "/piper/health/"}
HttpRequests ==
    [app : Apps, method : Methods, path : RequestPaths, at : {"new"},
     outcome : {NoOutcomeYet}]
HandlerOutcomes == {Raises, Returns(200), Returns(404)}

----------------------------------------------------------------------------
(* monitoring.py: the ad hoc collector TTSMetrics                           *)

\* deque(maxlen=n).append(x)
Push_Unbounded(q, x, maxlen) == Append(q, x)

Push(q, x, maxlen) ==
    IF Len(q) < maxlen THEN Append(q, x) ELSE Tail(Append(q, x))

\* list(q)[-n:]
LastN(q, n) ==
    IF Len(q) <= n THEN q ELSE SubSeq(q, Len(q) - n + 1, Len(q))

\* TTSMetrics.__init__
TTSMetrics(window_size) ==
    [window_size |-> window_size, lock |-> 0,
     request_count |-> 0, success_count |-> 0, error_count |-> 0,
     language_stats |-> [l \in {} |-> 0],
     generation_times |-> <<>>, request_sizes |-> <<>>, recent_errors |-> <<>>]

\* record_request, statement by statement.  self.request_count += 1 is a
\* load and a store: store_count writes the loaded value plus one.
store_count(c, loaded) == [c EXCEPT !.request_count = loaded + 1]

record_outcome(c, a, now) ==
    IF a.success
      THEN [c EXCEPT !.success_count = @ + 1,
                     !.generation_times = Push(@, a.generation_time, c.window_size),
                     !.request_sizes = Push(@, a.text_length, c.window_size)]
    ELSE IF a.error # NONE /\ a.error # ""
      THEN [c EXCEPT !.error_count = @ + 1,
                     !.recent_errors =
                         Push(@, [timestamp |-> now, language |-> a.language,
                                  error |-> a.error], 10)]
    ELSE [c EXCEPT !.error_count = @ + 1]

count_language(c, a) ==
    [c EXCEPT !.language_stats =
        IF a.language \in DOMAIN @ THEN [@ EXCEPT ![a.language] = @ + 1]
        ELSE (a.language :> 1) @@ @]

record_request(c, a, now) ==
    count_language(record_outcome(store_count(c, c.request_count), a, now), a)

\* get_metrics: the counters, the per-language counters and the last errors
\* of the dictionary it returns.
get_metrics(c) ==
    [total |-> c.request_count, successful |-> c.success_count,
     failed |-> c.error_count, languages |-> c.language_stats,
     recent_errors |-> LastN(c.recent_errors, 5)]

\* reset, in two parts: the counters, then the containers.
reset_counters(c) ==
    [c EXCEPT !.request_count = 0, !.success_count = 0, !.error_count = 0]
reset_containers(c) ==
    [c EXCEPT !.language_stats = [l \in {} |-> 0], !.generation_times = <<>>,
              !.request_sizes = <<>>, !.recent_errors = <<>>]
reset(c) == reset_containers(reset_counters(c))

\* with self.lock: the lock can be taken when no thread holds it.
LockFree_Always(c) == TRUE

LockFree(c) == c.lock = 0

\* What history keeps of a record_request call.
Remember(h, a, now) ==
    [h EXCEPT !.calls = @ + 1,
              !.successes = IF a.success
                              THEN Append(@, <<a.generation_time, a.text_length>>)
                            ELSE @,
              !.failures = IF ~a.success /\ a.error # NONE /\ a.error # ""
                             THEN Append(@, [timestamp |-> now, language |-> a.language,
                                             error |-> a.error])
                           ELSE @]
Forget(h) == [h EXCEPT !.calls = 0, !.successes = <<>>, !.failures = <<>>]

NoSnapshot == <<>>
NoHistory ==
    [clock |-> 0, calls |-> 0, successes |-> <<>>, failures |-> <<>>,
     succeeded |-> 0, failed |-> 0, silent |-> 0, resets |-> 0]

RecordKinds == {"success", "failure", "silent", "empty"}

\* The arguments of the next record_request call of a kind: the generation
\* time and text length follow the clock, so that no two calls agree.
Arguments(kind, now) ==
    [language |-> IF kind = "success" THEN "en" ELSE "fr",
     text_length |-> 10 * now, generation_time |-> now,
     success |-> kind = "success",
     error |-> IF kind = "failure" THEN "boom" ELSE IF kind = "silent" THEN NONE ELSE ""]

\* One thread calls record_request, get_metrics and reset in turn.
RecordRequest(kind) ==
    /\ kind = "success" => history.succeeded < MaxSuccesses
    /\ kind = "failure" => history.failed < MaxFailures
    /\ kind \in {"silent", "empty"} => history.silent < MaxSilentFailures
    /\ LET now == history.clock + 1
           a == Arguments(kind, now)
       IN  /\ collector' = record_request(collector, a, now)
           /\ history' = [Remember(history, a, now) EXCEPT
                            !.clock = now,
                            !.succeeded = IF kind = "success" THEN @ + 1 ELSE @,
                            !.failed = IF kind = "failure" THEN @ + 1 ELSE @,
                            !.silent = IF kind \in {"silent", "empty"} THEN @ + 1 ELSE @]
    /\ seen' = NoSnapshot
    /\ UNCHANGED <<threads, oldvars, poolvars, httpvars, lifevars>>

GetMetrics ==
    /\ seen = NoSnapshot
    /\ seen' = <<get_metrics(collector)>>
    /\ UNCHANGED <<collector, threads, history, oldvars, poolvars, httpvars, lifevars>>

Reset ==
    /\ history.resets < 1
    /\ history.calls > 0
    /\ collector' = reset(collector)
    /\ history' = [Forget(history) EXCEPT !.resets = @ + 1]
    /\ seen' = NoSnapshot
    /\ UNCHANGED <<threads, oldvars, poolvars, httpvars, lifevars>>

\* Several threads call the collector at once; each call advances statement
\* by statement.  t: the thread, which also serves as its call's time.
Acquire(t) ==
    /\ threads[t].pc = "start"
    /\ LockFree(collector)
    /\ collector' = [collector EXCEPT !.lock = t]
    /\ threads' = [threads EXCEPT ![t].pc = "locked"]
    /\ UNCHANGED <<seen, history, oldvars, poolvars, httpvars, lifevars>>

RecordStep(t) ==
    /\ threads[t].op \in RecordKinds
    /\ LET me == threads[t]
           a == Arguments(me.op, t)
       IN  CASE me.pc = "locked" ->
                  /\ threads' = [threads EXCEPT ![t].pc = "store",
                                                ![t].loaded = collector.request_count]
                  /\ UNCHANGED collector
             [] me.pc = "store" ->
                  /\ collector' = store_count(collector, me.loaded)
                  /\ threads' = [threads EXCEPT ![t].pc = "outcome"]
             [] me.pc = "outcome" ->
                  /\ collector' = record_outcome(collector, a, t)
                  /\ threads' = [threads EXCEPT ![t].pc = "language"]
             [] me.pc = "language" ->
                  /\ collector' = count_language(collector, a)
                  /\ threads' = [threads EXCEPT ![t].pc = "release"]
             [] OTHER -> FALSE
    /\ UNCHANGED <<seen, history, oldvars, poolvars, httpvars, lifevars>>

GetMetricsStep(t) ==
    /\ threads[t].op = "get_metrics"
    /\ threads[t].pc = "locked"
    /\ seen' = <<get_metrics(collector)>>
    /\ threads' = [threads EXCEPT ![t].pc = "release"]
    /\ UNCHANGED <<collector, history, oldvars, poolvars, httpvars, lifevars>>

ResetStep(t) ==
    /\ threads[t].op = "reset"
    /\ \/ /\ threads[t].pc = "locked"
          /\ collector' = reset_counters(collector)
          /\ threads' = [threads EXCEPT ![t].pc = "containers"]
       \/ /\ threads[t].pc = "containers"
          /\ collector' = reset_containers(collector)
          /\ threads' = [threads EXCEPT ![t].pc = "release"]
    /\ UNCHANGED <<seen, history, oldvars, poolvars, httpvars, lifevars>>

\* The with block ends: the lock is released and the call returns.
Release(t) ==
    /\ threads[t].pc = "release"
    /\ collector' = [collector EXCEPT !.lock = 0]
    /\ threads' = [threads EXCEPT ![t].pc = "done"]
    /\ history' =
         IF threads[t].op \in RecordKinds
           THEN Remember(history, Arguments(threads[t].op, t), t)
         ELSE IF threads[t].op = "reset"
           THEN [Forget(history) EXCEPT !.resets = @ + 1]
         ELSE history
    /\ UNCHANGED <<seen, oldvars, poolvars, httpvars, lifevars>>

ThreadOps == {"success", "failure", "get_metrics", "reset"}
WindowSizes == {2}

----------------------------------------------------------------------------
(* tts_service.py and main.py: startup, health check and shutdown           *)

\* self.language_models, in the order of the dictionary.
language_models == <<"en", "de", "fr">>

\* tts_service = None, and PiperTTSService()
NoServiceObject ==
    [constructed |-> FALSE, ready |-> FALSE, loaded_models |-> {}, model_configs |-> {}]
PiperTTSService == [NoServiceObject EXCEPT !.constructed = TRUE]

\* How the preparation of one model can go: the files are on disk or are
\* downloaded; creating the directory, the download or reading the
\* configuration can fail; the download can leave no configuration file.
PrepareOutcomes ==
    {"on_disk", "downloaded", "mkdir_failed", "download_failed", "download_timeout",
     "config_missing", "config_unparsable"}

\* _prepare_model: the service afterwards and whether it raised.
prepare_model(s, language, outcome) ==
    CASE outcome \in {"on_disk", "downloaded"} ->
           [raised |-> FALSE,
            service |-> [s EXCEPT !.model_configs = @ \cup {language},
                                !.loaded_models = @ \cup {language}]]
      [] outcome = "config_missing" ->
           \* logs "Config file not found after download" and returns
           [raised |-> FALSE, service |-> s]
      [] OTHER ->
           [raised |-> TRUE, service |-> s]

\* is_ready
is_ready_FlagOnly(s) == s.ready

is_ready(s) == s.ready /\ Cardinality(s.loaded_models) > 0

\* cleanup: the model caches are cleared.
cleanup(s) == [s EXCEPT !.loaded_models = {}, !.model_configs = {}]

\* health_check
health_check(s) ==
    IF ~s.constructed \/ ~is_ready(s)
      THEN [status |-> 503, error |-> "service_not_ready",
            service_initialized |-> s.constructed,
            models_loaded |-> IF s.constructed THEN Cardinality(s.loaded_models) ELSE 0,
            is_ready |-> IF s.constructed THEN is_ready(s) ELSE FALSE]
    ELSE [status |-> 200, error |-> "",
          service_initialized |-> TRUE,
          models_loaded |-> Cardinality(s.loaded_models),
          is_ready |-> TRUE]

\* lifespan: tts_service = PiperTTSService(); initialize begins.  dirs_ok:
\* the models and temp directories can be created.
Construct(dirs_ok) ==
    /\ startup.phase = "none"
    /\ tts_service' = PiperTTSService
    /\ startup' = [startup EXCEPT !.phase = IF dirs_ok THEN "initializing" ELSE "failed"]
    /\ UNCHANGED <<probe, oldvars, poolvars, httpvars, tmvars>>

\* initialize: one turn of the loop over language_models.
PrepareModel(outcome) ==
    /\ startup.phase = "initializing"
    /\ startup.next <= Len(language_models)
    /\ LET lang == language_models[startup.next]
           r == prepare_model(tts_service, lang, outcome)
       IN  /\ tts_service' = r.service
           /\ startup' = [startup EXCEPT
                            !.next = @ + 1,
                            !.attempted = @ \cup {lang},
                            !.successful_models = IF r.raised THEN @ ELSE @ \cup {lang},
                            !.failed_models = IF r.raised THEN @ \cup {lang} ELSE @]
    /\ UNCHANGED <<probe, oldvars, poolvars, httpvars, tmvars>>

\* initialize: after the loop, self._ready = True.
FinishInitialize ==
    /\ startup.phase = "initializing"
    /\ startup.next > Len(language_models)
    /\ tts_service' = [tts_service EXCEPT !.ready = TRUE]
    /\ startup' = [startup EXCEPT !.phase = "serving"]
    /\ UNCHANGED <<probe, oldvars, poolvars, httpvars, tmvars>>

\* lifespan's finally block, at shutdown or after a failed initialize.
Shutdown ==
    /\ startup.phase \in {"serving", "failed"}
    /\ tts_service' = cleanup(tts_service)
    /\ startup' = [startup EXCEPT !.phase = "stopped"]
    /\ UNCHANGED <<probe, oldvars, poolvars, httpvars, tmvars>>

\* GET /piper/health
HealthCheck ==
    /\ probe' = [asked |-> TRUE, service |-> tts_service, phase |-> startup.phase,
                 answer |-> health_check(tts_service)]
    /\ UNCHANGED <<tts_service, startup, oldvars, poolvars, httpvars, tmvars>>

NoStartup ==
    [phase |-> "none", next |-> 1, attempted |-> {}, successful_models |-> {},
     failed_models |-> {}]
NoProbe ==
    [asked |-> FALSE, service |-> NoServiceObject, phase |-> "none",
     answer |-> health_check(NoServiceObject)]

----------------------------------------------------------------------------
(* Specification of the IP filter                                           *)

\* The other subsystems, as constructed and left alone.
IdleIP ==
    /\ backend_ip = ""
    /\ requests = 0
    /\ last = NoRequest
    /\ handled = 0
    /\ rejected = 0
    /\ blocked_total = 0
    /\ ipcheck = NoCheck

IdleCatalog ==
    /\ file = AbsentFile
    /\ languages = <<>>
    /\ voice_key_map = EmptyKeyMap
    /\ load_result = "none"
    /\ read_index = AbsentFile
    /\ call = NoCall
    /\ query = NoQuery

IdleGen ==
    /\ svc = NoService
    /\ job = NoJob
    /\ temp_dir = {}
    /\ gens = 0
    /\ resp = NoOutcome
    /\ failed = {}

IdlePool ==
    /\ executor = NoExecutor
    /\ callers = NoCallers

IdleHttp ==
    /\ inflight = <<>>
    /\ http = NoMetrics
    /\ helper = NoHelper

IdleCollector ==
    /\ collector = TTSMetrics(100)
    /\ threads = <<>>
    /\ seen = NoSnapshot
    /\ history = NoHistory

IdleLife ==
    /\ tts_service = NoServiceObject
    /\ startup = NoStartup
    /\ probe = NoProbe

IdleRun ==
    /\ IdlePool
    /\ IdleHttp
    /\ IdleCollector
    /\ IdleLife

IdleLog ==
    /\ logcfg = Unconfigured
    /\ first_config = NoFirstConfig
    /\ log_files = <<>>
    /\ cleaned = NeverCleaned

InitIP ==
    /\ backend_ip \in BackendAddresses
    /\ requests = 0
    /\ last = NoRequest
    /\ handled = 0
    /\ rejected = 0
    /\ blocked_total = 0
    /\ ipcheck = NoCheck
    /\ IdleCatalog
    /\ IdleGen
    /\ IdleLog
    /\ IdleRun

NextIP ==
    \/ \E a \in Addresses : CallIsAllowedIp(a)
    \/ \E p \in Paths, a \in Addresses : verify_backend_ip(p, a)

SpecIP == InitIP /\ [][NextIP]_vars

----------------------------------------------------------------------------
(* Specifications of the voice catalog                                      *)

\* SpecCatalog: one index file, loaded at startup and queried.
InitCatalog ==
    /\ IdleIP
    /\ IdleGen
    /\ IdleLog
    /\ IdleRun
    /\ file \in IndexFiles \cup HyphenFiles
    /\ languages = <<>>
    /\ voice_key_map = EmptyKeyMap
    /\ load_result = "none"
    /\ read_index = AbsentFile
    /\ call \in ResolveCalls \cup KeyCalls
    /\ query = NoQuery

NextCatalog ==
    \/ load_voices
    \/ ResolveVoice
    \/ FindByVoiceKey

SpecCatalog == InitCatalog /\ [][NextCatalog]_vars

\* SpecReload: the index file is rewritten and loaded again.
InitReload ==
    /\ IdleIP
    /\ IdleGen
    /\ IdleLog
    /\ IdleRun
    /\ file \in ReloadFiles
    /\ languages = <<>>
    /\ voice_key_map = EmptyKeyMap
    /\ load_result = "none"
    /\ read_index = AbsentFile
    /\ call \in VoiceCalls
    /\ query = NoQuery

NextReload ==
    \/ load_voices
    \/ \E f \in ReloadFiles : WriteIndex(f)
    \/ GetVoice

SpecReload == InitReload /\ [][NextReload]_vars

\* SpecGenerate: one client request, made through the route or by calling
\* generate_speech, MaxGenerations times over.
InitGenerate ==
    /\ IdleIP
    /\ IdleCatalog
    /\ IdleLog
    /\ IdleRun
    /\ svc \in Services
    /\ job \in Jobs
    /\ temp_dir = {}
    /\ gens = 0
    /\ resp = NoOutcome
    /\ failed = {}

NextGenerate ==
    \/ PostGenerate
    \/ CallGenerateSpeech

SpecGenerate == InitGenerate /\ [][NextGenerate]_vars

\* SpecLog: logging is set up and old log files are cleaned, in any order.
InitLog ==
    /\ IdleIP
    /\ IdleCatalog
    /\ IdleGen
    /\ IdleRun
    /\ logcfg = Unconfigured
    /\ first_config = NoFirstConfig
    /\ log_files \in LogDirs
    /\ cleaned = NeverCleaned

NextLog ==
    \/ \E s \in ServerNames, l \in LevelArgs, ok \in BOOLEAN : SetupLogging(s, l, ok)
    \/ \E d \in RetentionArgs, failing \in LogFileNames \cup {""} : CleanupOldLogs(d, failing)

SpecLog == InitLog /\ [][NextLog]_vars

\* SpecPool: MaxCallers coroutines use the worker pool concurrently.
InitPool ==
    /\ IdleIP
    /\ IdleCatalog
    /\ IdleGen
    /\ IdleLog
    /\ IdleHttp
    /\ IdleCollector
    /\ IdleLife
    /\ \E n \in WorkerThreads : executor = [NoExecutor EXCEPT !.max_workers = n]
    /\ callers \in [1..MaxCallers -> [kind : CallerKinds, stage : {1}, at : {"ready"}]]

NextPool ==
    \/ \E c \in DOMAIN callers : RunInExecutor(c)
    \/ WorkerTakes
    \/ \E c \in DOMAIN callers : SubprocessRun(c)
    \/ \E c \in DOMAIN callers, raised \in BOOLEAN : FunctionEnds(c, raised)

SpecPool == InitPool /\ [][NextPool]_vars

\* SpecHttp: MaxInFlight requests pass the instrumentation concurrently.
InitHttp ==
    /\ IdleIP
    /\ IdleCatalog
    /\ IdleGen
    /\ IdleLog
    /\ IdlePool
    /\ IdleCollector
    /\ IdleLife
    /\ inflight \in [1..MaxInFlight -> HttpRequests]
    /\ http = NoMetrics
    /\ helper = NoHelper

NextHttp ==
    \/ \E r \in DOMAIN inflight : Enter(r)
    \/ \E r \in DOMAIN inflight, outcome \in HandlerOutcomes : Leave(r, outcome)

SpecHttp == InitHttp /\ [][NextHttp]_vars

\* SpecHelpers: the metric helpers are called, MaxHelperCalls times over.
InitHelpers ==
    /\ IdleIP
    /\ IdleCatalog
    /\ IdleGen
    /\ IdleLog
    /\ IdleRun

NextHelpers ==
    \E name \in SafeHelpers \cup DirectHelpers, fails \in BOOLEAN : CallHelper(name, fails)

SpecHelpers == InitHelpers /\ [][NextHelpers]_vars

\* SpecCollector: one thread uses the collector.
InitCollector ==
    /\ IdleIP
    /\ IdleCatalog
    /\ IdleGen
    /\ IdleLog
    /\ IdlePool
    /\ IdleHttp
    /\ IdleLife
    /\ \E n \in WindowSizes : collector = TTSMetrics(n)
    /\ threads = <<>>
    /\ seen = NoSnapshot
    /\ history = NoHistory

NextCollector ==
    \/ \E kind \in RecordKinds : RecordRequest(kind)
    \/ GetMetrics
    \/ Reset

SpecCollector == InitCollector /\ [][NextCollector]_vars

\* SpecLocks: MaxThreads threads call the collector concurrently.
InitLocks ==
    /\ IdleIP
    /\ IdleCatalog
    /\ IdleGen
    /\ IdleLog
    /\ IdlePool
    /\ IdleHttp
    /\ IdleLife
    /\ \E n \in WindowSizes : collector = TTSMetrics(n)
    /\ threads \in [1..MaxThreads -> [op : ThreadOps, pc : {"start"}, loaded : {0}]]
    /\ seen = NoSnapshot
    /\ history = NoHistory

NextLocks ==
    \/ \E t \in DOMAIN threads : Acquire(t)
    \/ \E t \in DOMAIN threads : RecordStep(t)
    \/ \E t \in DOMAIN threads : GetMetricsStep(t)
    \/ \E t \in DOMAIN threads : ResetStep(t)
    \/ \E t \in DOMAIN threads : Release(t)

SpecLocks == InitLocks /\ [][NextLocks]_vars

\* SpecLife: the service is started, asked for its health, and shut down.
InitLife ==
    /\ IdleIP
    /\ IdleCatalog
    /\ IdleGen
    /\ IdleLog
    /\ IdlePool
    /\ IdleHttp
    /\ IdleCollector
    /\ IdleLife

NextLife ==
    \/ \E dirs_ok \in BOOLEAN : Construct(dirs_ok)
    \/ \E outcome \in PrepareOutcomes : PrepareModel(outcome)
    \/ FinishInitialize
    \/ Shutdown
    \/ HealthCheck

SpecLife == InitLife /\ [][NextLife]_vars

----------------------------------------------------------------------------
(* Claims about the allow-list and the IP filter                            *)

ExemptPaths == {HealthPath, MetricsPath}

\* C1: is_allowed_ip(address) is true exactly when no backend address is
\* configured, or the address is one of the loopback literals "127.0.0.1",
\* "::1", "localhost", or the address equals the configured backend address.
C1_IsAllowedIp ==
    ipcheck.called =>
        (ipcheck.result <=>
            \/ backend_ip = ""
            \/ ipcheck.client \in Loopback
            \/ ipcheck.client = backend_ip)

\* C1 witness: a backend address is configured and the function has answered
\* false for a foreign address.
C1_Witness ==
    /\ ipcheck.called
    /\ backend_ip = "10.0.0.5"
    /\ ipcheck.client = "10.0.0.9"
    /\ ~ipcheck.result

C3_DisallowedRejected ==
    /\ (requests > 0 /\ last.path \notin ExemptPaths
          /\ ~is_allowed_ip(backend_ip, last.client))
         => (last.status = 403 /\ ~last.passed)
    /\ (requests > 0 /\ last.client = backend_ip) => (last.passed /\ last.status # 403)
    /\ handled + rejected = requests

\* C3 witness: a generation request from a foreign address has been rejected
\* and one from the backend address has been passed on.
C3_Witness ==
    /\ backend_ip = "10.0.0.5"
    /\ rejected > 0
    /\ last.path = GeneratePath
    /\ last.client = backend_ip
    /\ last.passed

\* C4 (as claimed): with no backend address configured the filter admits
\* every request and answers none with 403.
C4_OpenModeAdmitsAll ==
    (backend_ip = "" /\ requests > 0) => (last.passed /\ last.status # 403 /\ rejected = 0)

\* C5 (as claimed): the blocked-request counter equals the number of
\* requests the filter has rejected.
C5_BlockedCounterCountsRejections ==
    blocked_total = rejected

----------------------------------------------------------------------------
(* Claims about loading the catalog                                         *)

\* What an index file says, read off the file itself: its voice entries as
\* <<language, locale, voice, voice_data>>.
FileVoiceEntries(f) ==
    UNION {UNION {{<<l[1], c[1], v[1], v[2]>> : v \in Range(Items(c[2].voices))}
                  : c \in Range(Items(l[2].locales))}
           : l \in Range(Items(f.data.languages))}

\* The recognized quality strings of a voice entry.
ValidQualities(voice_data) ==
    {q[1] : q \in Range(Items(voice_data.qualities))} \cap QualityValues

\* The (language, locale, voice) entries with at least one valid quality, and
\* the canonical keys of their valid qualities.
FileVoices(f) ==
    {<<e[1], e[2], e[3]>> : e \in {x \in FileVoiceEntries(f) : ValidQualities(x[4]) # {}}}

FileKeys(f) ==
    UNION {{full_key(e[1], e[2], e[3], q) : q \in ValidQualities(e[4])}
           : e \in FileVoiceEntries(f)}

\* The (language, locale, voice) coordinates present in a catalog.
CatalogVoices(langs) ==
    UNION {UNION {{<<l.code, c.code, v.name>> : v \in Range(c.voices)}
                  : c \in Range(l.locales)}
           : l \in Range(langs)}

\* A file the loader cannot get through: absent, unparsable, or with a
\* non-object where an object is expected or a gender that is not a string.
\* With skip_unrecognized the entry of an unrecognized quality string is not
\* looked at.
StructuralError(f, skip_unrecognized) ==
    \/ f.data.kind # "map"
    \/ f.data.languages.kind = "bad"
    \/ \E l \in Range(Items(f.data.languages)) :
         \/ l[2].kind # "map"
         \/ l[2].locales.kind = "bad"
         \/ \E c \in Range(Items(l[2].locales)) :
              \/ c[2].kind # "map"
              \/ c[2].voices.kind = "bad"
              \/ \E v \in Range(Items(c[2].voices)) :
                   \/ v[2].kind # "map"
                   \/ v[2].gender = GenderNotString
                   \/ v[2].qualities.kind = "bad"
                   \/ \E q \in Range(Items(v[2].qualities)) :
                        /\ q[2].kind # "map"
                        /\ skip_unrecognized => q[1] \in QualityValues

Unloadable(f, skip_unrecognized) ==
    ~f.exists \/ ~f.parses \/ StructuralError(f, skip_unrecognized)

\* C6: after a load_voices() call that returned true, whatever was loaded
\* before, every language of the catalog has a locale, every locale a voice
\* and every voice a quality variant; and a voice whose index entry has only
\* unrecognized quality strings is absent when looked up by name.
C6_NoEmptyLevel ==
    load_result = "true" =>
        /\ \A l \in Range(languages) :
             /\ l.locales # <<>>
             /\ \A c \in Range(l.locales) :
                  /\ c.voices # <<>>
                  /\ \A v \in Range(c.voices) : v.variants # {}
        /\ \A e \in FileVoiceEntries(read_index) :
             ValidQualities(e[4]) = {} => get_voice(languages, e[1], e[2], e[3]) = None
        /\ (query.op = "get_voice" /\ query.fresh
              /\ \E e \in FileVoiceEntries(read_index) :
                   /\ <<e[1], e[2], e[3]>> = query.args
                   /\ ValidQualities(e[4]) = {})
             => query.result = None

\* C6 witness: an index with a good language "en" and a language "de" whose
\* only voice has only the unrecognized quality "ultra" has been loaded, and
\* the voice has been looked up by name and found absent.
C6_Witness ==
    /\ load_result = "true"
    /\ read_index = IndexFile(IndexData(JMap(<<
           <<"en", GoodLangData>>,
           <<"de", LangData(JMap(<<<<"US", LocaleData(JMap(<<<<"amy",
               VoiceData("male", JMap(<<<<"ultra", VariantData("ultra.onnx")>>>>))>>>>))>>>>))>>
         >>)))
    /\ Len(languages) = 1
    /\ query.op = "get_voice"
    /\ query.fresh
    /\ query.args = <<"de", "US", "amy">>
    /\ query.result = None

\* C7: after load_voices() returns true the catalog is determined by the
\* file just read alone: every voice of the file with a valid quality is
\* reachable by get_voice, the catalog holds no other voice and the reverse
\* index no other key, and total_voices is the number of such voices.
C7_CatalogIsLastFile ==
    load_result = "true" =>
        /\ \A e \in FileVoices(read_index) :
             get_voice(languages, e[1], e[2], e[3]) # None
        /\ CatalogVoices(languages) = FileVoices(read_index)
        /\ {l.code : l \in Range(languages)} = {e[1] : e \in FileVoices(read_index)}
        /\ DOMAIN voice_key_map = FileKeys(read_index)
        /\ total_voices(languages) = Cardinality(FileVoices(read_index))
        /\ (query.op = "get_voice" /\ query.fresh)
             => (query.result # None <=> query.args \in FileVoices(read_index))

\* C7 witness: a voice that an earlier query found is gone after the index
\* was rewritten without it and loaded again with success.
C7_Witness ==
    /\ load_result = "true"
    /\ query.op = "get_voice"
    /\ ~query.fresh
    /\ query.result # None
    /\ get_voice(languages, query.args[1], query.args[2], query.args[3]) = None
    /\ total_voices(languages) = 1

\* C8 (as claimed): load_voices() never propagates an exception and returns
\* false when the file is absent, does not parse, or has a wrong structure
\* at any nesting level.
C8_FalseOnAnyMalformed ==
    /\ load_result # "raised"
    /\ (load_result # "none" /\ Unloadable(read_index, FALSE)) => load_result = "false"

\* C8 (amended): load_voices() never propagates an exception; it returns
\* false exactly when the file is absent, does not parse, has a non-object
\* where the loader reads an object (the root, "languages", a language,
\* "locales", a locale, "voices", a voice, "qualities", the entry of a
\* recognized quality) or has a gender that is not a string; the entry of an
\* unrecognized quality string is skipped whatever it holds.
C8_LoadNeverRaises ==
    /\ load_result # "raised"
    /\ load_result # "none" => (load_result = "false" <=> Unloadable(read_index, TRUE))

\* C8 witness: a file whose second language has a non-object under the
\* recognized quality "high", after a good quality "low", was answered false.
C8_Witness ==
    /\ load_result = "false"
    /\ read_index = IndexFile(IndexData(JMap(<<
           <<"en", GoodLangData>>,
           <<"de", LangData(JMap(<<<<"US", LocaleData(JMap(<<<<"amy",
               VoiceData("male", JMap(<<<<"low", VariantData("low.onnx")>>,
                                        <<"high", BadVariantData>>>>))>>>>))>>>>))>>
         >>)))

----------------------------------------------------------------------------
(* Claims about resolving voices                                            *)

\* The quality variants of a catalog with the objects they hang from.
CatalogVariants(langs) ==
    UNION {UNION {UNION {{<<l, c, v, x>> : x \in v.variants}
                         : v \in Range(c.voices)}
                  : c \in Range(l.locales)}
           : l \in Range(langs)}

KeyOf(t) == full_key(t[1].code, t[2].code, t[3].name, t[4].quality)

\* C9 (as claimed): for every quality variant of the loaded catalog,
\* find_by_voice_key of its canonical key returns exactly its language,
\* locale, voice and variant; two different variants never share a canonical
\* key; a key that names no variant returns absent.
C9_KeyRoundTrip ==
    /\ \A t, u \in CatalogVariants(languages) : KeyOf(t) = KeyOf(u) => t = u
    /\ (query.op = "find_by_voice_key" /\ query.fresh) =>
         LET named == {t \in CatalogVariants(languages) : KeyOf(t) = query.args[1]}
         IN  /\ \A t \in named : query.result = t
             /\ named = {} => query.result = None

\* The locale a resolve_voice call looks in: the one named, or the default.
LocaleStep(a) ==
    LET lang == get_language(languages, a[1])
    IN  IF lang = None THEN None
        ELSE IF a[2] # NONE THEN Language_get_locale(lang[1], a[2])
        ELSE get_default_locale(lang[1])

RecognizedGender(a) == a[3] # NONE /\ Lower(a[3]) \in GenderValues
RecognizedQuality(a) == a[5] # NONE /\ Lower(a[5]) \in QualityValues

\* The returned objects hang together in the catalog.
Coherent(r) ==
    /\ r[1] \in Range(languages)
    /\ r[2] \in Range(r[1].locales)
    /\ r[3] \in Range(r[2].voices)
    /\ r[4] \in r[3].variants

\* C10 (as claimed): resolve_voice returns absent whenever a step fails -
\* unknown language, unknown locale, an unrecognized gender or a gender with
\* no voice in the locale, an unknown voice, a quality the resolved voice
\* does not offer - and a returned tuple agrees with every component the
\* caller gave.
C10_AbsentOnAnyFailedStep ==
    (query.op = "resolve_voice" /\ query.fresh) =>
        LET a == query.args
            r == query.result
            loc == LocaleStep(a)
        IN  /\ loc = None => r = None
            /\ (a[3] # NONE /\ ~RecognizedGender(a)) => r = None
            /\ (loc # None /\ RecognizedGender(a)
                  /\ ~\E v \in Range(loc[1].voices) : v.gender = Lower(a[3])) => r = None
            /\ (loc # None /\ a[4] # NONE
                  /\ ~\E v \in Range(loc[1].voices) : v.name = a[4]) => r = None
            /\ (r # None /\ a[5] # NONE /\ ~Offers(r[3], Lower(a[5]))) => FALSE
            /\ r # None =>
                 /\ Coherent(r)
                 /\ r[1].code = a[1]
                 /\ a[2] # NONE => r[2].code = a[2]
                 /\ a[3] # NONE => r[3].gender = Lower(a[3])
                 /\ a[4] # NONE => r[3].name = a[4]
                 /\ a[5] # NONE => r[4].quality = Lower(a[5])

\* C10 (amended): resolve_voice returns absent exactly when the language is
\* unknown, the named locale is unknown, the named voice is not in the
\* locale, or no voice is named and the locale has no voice of the
\* recognized gender asked for.  An unrecognized gender counts as none given,
\* a gender given together with a voice name is not looked at, and a quality
\* that is unrecognized or not offered by the voice gives the voice's best
\* quality.  A returned tuple agrees with the language, the locale given, the
\* voice named, the recognized gender when no voice is named, and the quality
\* when the voice offers it.
C10_AbsentOnFailedLookup ==
    (query.op = "resolve_voice" /\ query.fresh) =>
        LET a == query.args
            r == query.result
            loc == LocaleStep(a)
        IN  /\ r = None <=>
                 \/ loc = None
                 \/ a[4] # NONE /\ ~\E v \in Range(loc[1].voices) : v.name = a[4]
                 \/ a[4] = NONE /\ RecognizedGender(a)
                      /\ ~\E v \in Range(loc[1].voices) : v.gender = Lower(a[3])
            /\ r # None =>
                 /\ Coherent(r)
                 /\ r[1].code = a[1]
                 /\ r[2] = loc[1]
                 /\ a[2] # NONE => r[2].code = a[2]
                 /\ a[4] # NONE => r[3].name = a[4]
                 /\ (a[4] = NONE /\ RecognizedGender(a)) => r[3].gender = Lower(a[3])
                 /\ IF RecognizedQuality(a) /\ Offers(r[3], Lower(a[5]))
                      THEN r[4].quality = Lower(a[5])
                      ELSE r[4].quality = best_quality(r[3])

\* C10 witness: a call with the unrecognized gender "robot" and the quality
\* "LOW" has returned a tuple, of a voice that offers "low".
C10_Witness ==
    /\ query.op = "resolve_voice"
    /\ query.fresh
    /\ query.args[3] = "robot"
    /\ query.args[5] = "LOW"
    /\ load_result = "true"
    /\ query.result # None
    /\ query.result[4].quality = "low"
    /\ Cardinality(query.result[3].variants) = 2

\* The locales an index file lists for a language, in file order; the voices
\* of a listed locale that have a recognized quality; the locales that have
\* such a voice.
FileLocales(f, lang_code) ==
    LET hits == SelectSeq(Items(f.data.languages), LAMBDA l : l[1] = lang_code)
    IN  IF hits = <<>> THEN <<>> ELSE Items(hits[1][2].locales)

UsableVoices(locale_item) ==
    SelectSeq(Items(locale_item[2].voices), LAMBDA v : ValidQualities(v[2]) # {})

UsableLocales(f, lang_code) ==
    SelectSeq(FileLocales(f, lang_code), LAMBDA c : UsableVoices(c) # <<>>)

\* The best of a set of qualities in the order high, medium, low, x_low.
BestOf(qualities) ==
    IF "high" \in qualities THEN "high"
    ELSE IF "medium" \in qualities THEN "medium"
    ELSE IF "low" \in qualities THEN "low"
    ELSE "x_low"

OnlyLanguage(a) == a[2] = NONE /\ a[3] = NONE /\ a[4] = NONE /\ a[5] = NONE

\* C11 (as claimed): resolve_voice called with only a language returns the
\* first locale the index file lists for that language, the first voice of
\* that locale, and the best quality of that voice in the order high,
\* medium, low, x_low.
C11_FirstListedDefaults ==
    (query.op = "resolve_voice" /\ query.fresh /\ OnlyLanguage(query.args)
       /\ load_result = "true" /\ query.result # None) =>
        LET listed == FileLocales(read_index, query.args[1])
            r == query.result
        IN  /\ listed # <<>>
            /\ r[2].code = listed[1][1]
            /\ Items(listed[1][2].voices) # <<>>
            /\ r[3].name = Items(listed[1][2].voices)[1][1]
            /\ r[4].quality = BestOf({x.quality : x \in r[3].variants})

\* C11 (amended): resolve_voice called with only a language returns the
\* first locale listed for that language that has a voice with a recognized
\* quality, the first such voice of that locale, and the best recognized
\* quality of that voice in the order high, medium, low, x_low; it returns
\* absent when the file lists no such locale for the language.
C11_FirstUsableDefaults ==
    (query.op = "resolve_voice" /\ query.fresh /\ OnlyLanguage(query.args)
       /\ load_result = "true") =>
        LET usable == UsableLocales(read_index, query.args[1])
            r == query.result
        IN  IF usable = <<>> THEN r = None
            ELSE /\ r # None
                 /\ r[1].code = query.args[1]
                 /\ r[2].code = usable[1][1]
                 /\ r[3].name = UsableVoices(usable[1])[1][1]
                 /\ r[4].quality = BestOf(ValidQualities(UsableVoices(usable[1])[1][2]))
                 /\ r[4] \in r[3].variants

\* C11 witness: the file lists two locales, the first with a voice offering
\* "high" and "low"; the call with only the language has returned the first
\* locale and "high".
C11_Witness ==
    /\ query.op = "resolve_voice"
    /\ query.fresh
    /\ OnlyLanguage(query.args)
    /\ load_result = "true"
    /\ Len(FileLocales(read_index, "en")) = 2
    /\ query.result # None
    /\ query.result[2].code = FileLocales(read_index, "en")[1][1]
    /\ Cardinality(query.result[3].variants) = 2
    /\ query.result[4].quality = "high"

----------------------------------------------------------------------------
(* Claims about speech generation                                           *)

Called == gens > 0
ViaRoute == job.via = "route"
ViaService == job.via = "service"

\* C12 (as claimed): when a generate_speech call has finished, by returning
\* audio or by raising, none of the temporary files created for it remains in
\* the temp directory, on every exit path.
C12_NoTempFileRemains ==
    Called => temp_dir = {}

\* C13 (as claimed): if the engine exits non-zero, produces no output file
\* or exceeds its timeout, generate_speech raises, the transcoder is not
\* invoked for the request, no audio is returned, and the route answers 500.
C13_EngineFailureEndsInFailure ==
    (Called /\ resp.call.engine_exit \in {"nonzero", "no_output", "timeout"}) =>
        /\ resp.call.outcome = "Exception"
        /\ ~resp.call.transcoder_invoked
        /\ ViaRoute => resp.response.status = 500

\* The answers that report an invalid text.
TextInvalidErrors == {"text_too_short", "text_too_long", "invalid_text"}

\* C14 (as claimed): for empty or whitespace-only text generate_speech fails
\* with the text-invalid error for every language value, available or not,
\* and the engine is never started.
C14_TextValidatedFirst ==
    (Called /\ job.text.kind = "blank") =>
        /\ ~resp.call.engine_started
        /\ ViaService => (resp.call.outcome = "ValueError" /\ resp.call.message = TextEmpty)
        /\ (ViaRoute /\ job.speed \in 5..20) =>
             (resp.response.status = 400 /\ resp.response.body.error \in TextInvalidErrors)

\* The request passes the checks on text other than the length limit, and
\* those on language and speed.
PlainText == job.text.kind = "plain" /\ job.text.len > 0
LanguageLoaded == job.language \in svc.loaded_models
SpeedInRange == job.speed \in 5..20

\* C15 (as claimed): a text of exactly max_text_length characters is
\* accepted, one of max_text_length + 1 is rejected as text-invalid with the
\* provided length and the configured maximum, and for every configured
\* max_text_length no longer text reaches the engine.
C15_ConfiguredMaximumEnforced ==
    (Called /\ ViaRoute /\ PlainText /\ LanguageLoaded /\ SpeedInRange) =>
        /\ job.text.len = svc.max_text_length => resp.response.status # 400
        /\ job.text.len = svc.max_text_length + 1 =>
             /\ resp.response.status = 400
             /\ resp.response.body.error = "text_too_long"
             /\ resp.response.body.details.provided_length = job.text.len
             /\ resp.response.body.details.max_length = svc.max_text_length
        /\ resp.call.engine_started => resp.call.engine_text.len <= svc.max_text_length

\* C16 (as claimed): the speed the engine's length scale is derived from is
\* always within [0.5, 2.0]: 3.0 is used as 2.0 and 0.1 as 0.5.
C16_SpeedClamped ==
    (Called /\ resp.call.engine_started) =>
        /\ \/ resp.call.scale = <<1, 1>>
           \/ resp.call.scale[1] = 10 /\ resp.call.scale[2] \in 5..20
        /\ job.speed = 30 => resp.call.scale = length_scale(20)
        /\ job.speed = 1 => resp.call.scale = length_scale(5)

\* C17 (as claimed): an otherwise valid request for a language that is not
\* available is answered 404, with an error, the requested language and a
\* non-empty list of the available languages.
C17_UnavailableLanguageIs404 ==
    (Called /\ ViaRoute /\ PlainText /\ SpeedInRange /\ ~LanguageLoaded
       /\ job.text.len <= svc.max_text_length) =>
        /\ resp.response.status = 404
        /\ resp.response.body.error # ""
        /\ resp.response.body.details.requested_language = job.language
        /\ resp.response.body.details.available_languages # {}

\* The message of the 500 answer.
InternalErrorMessage == "Speech generation failed due to an internal error"

\* C18: a failure of generate_speech that is not a validation failure is
\* answered 500 with a message that does not depend on the exception: the
\* bodies of the 500 answers to a request are identical whatever the
\* exception's text.
C18_InternalErrorIsOpaque ==
    /\ \A p \in failed :
         /\ p[2].error = "generation_failed"
         /\ p[2].message = InternalErrorMessage
         /\ \A q \in failed : q[2] = p[2]
    /\ (Called /\ ViaRoute) =>
         (resp.call.outcome = "Exception" <=> resp.response.status = 500)

\* C18 witness: two failures with different exception texts were answered.
C18_Witness ==
    \E p, q \in failed : p[1] # q[1] /\ p[1] # "" /\ q[1] # ""

----------------------------------------------------------------------------
(* Claims about logging                                                     *)

\* The retention the caller of the last cleanup asked for, and the files of
\* the directory that matched the pattern and were older than it.
AskedDays ==
    IF cleaned.retention_days.given THEN cleaned.retention_days.days
    ELSE LOG_RETENTION_DAYS
OldBefore ==
    {n \in DOMAIN cleaned.before :
        MatchesLogPattern(n) /\ cleaned.before[n] < Now - (AskedDays * 86400)}

\* C19 (as claimed): cleanup_old_logs deletes exactly the files matching
\* {log_dir}/*.log* whose modification time lies strictly more than
\* retention_days * 86400 seconds before the call, for every retention_days
\* passed, and returns their number; an I/O error is not propagated.
C19_DeletesExactlyTheOldLogs ==
    cleaned.called =>
        /\ cleaned.returned = Cardinality(DOMAIN cleaned.before \ DOMAIN log_files)
        /\ cleaned.failing \notin OldBefore =>
             /\ DOMAIN log_files = DOMAIN cleaned.before \ OldBefore
             /\ cleaned.returned = Cardinality(OldBefore)

\* The sinks of a kind among the root logger's handlers.
Sinks(kind) == {i \in DOMAIN logcfg.handlers : logcfg.handlers[i] = kind}

\* C20 (as claimed): after any sequence of setup_logging calls the logging
\* configuration is the one the first call left, a later call changes
\* nothing, and there is exactly one console sink and at most one file sink.
C20_FirstCallConfigures ==
    first_config.called =>
        /\ logcfg = first_config.after_first
        /\ Cardinality(Sinks("stdout")) = 1
        /\ Cardinality(Sinks("file")) <= 1

----------------------------------------------------------------------------
(* Claims about the catalog after a load                                    *)

\* C29 (as claimed): after a load_voices() call that returned true, the
\* default_locale of every language of the catalog is the code of one of
\* that language's locales, and get_default_locale returns that locale.
C29_DefaultLocaleIsOwnLocale ==
    load_result = "true" =>
        \A l \in Range(languages) :
            /\ l.default_locale \in {c.code : c \in Range(l.locales)}
            /\ get_default_locale(l) = Language_get_locale(l, l.default_locale)

\* C30 (as claimed): a load_voices() call that returns false leaves the
\* catalog and its reverse index exactly as they were before the call,
\* whether the file is absent, does not parse or has a structural error
\* part-way through.
C30_FailedLoadKeepsCatalog ==
    [][load_result' = "false" =>
         (languages' = languages /\ voice_key_map' = voice_key_map)]_vars

----------------------------------------------------------------------------
(* Claims about the worker pool                                             *)

\* C21: at every moment the number of external processes running is at most
\* the configured worker-thread count, and a queued invocation starts only
\* at a moment when fewer workers than that are busy.
C21_ProcessesBoundedByWorkers ==
    /\ [](Cardinality(Processes) <= executor.max_workers)
    /\ [][\A c \in DOMAIN callers :
            (callers[c].at = "queued" /\ callers'[c].at # "queued")
              => Cardinality(executor.busy) < executor.max_workers]_vars

\* C21 witness: every worker runs a process while another invocation waits.
C21_Witness ==
    /\ Cardinality(Processes) = executor.max_workers
    /\ executor.queue # <<>>

----------------------------------------------------------------------------
(* Claims about request instrumentation and metric helpers                  *)

\* The requests that are inside the middleware of an app, and those that
\* have left it.
Inside(app) ==
    {r \in DOMAIN inflight : inflight[r].app = app /\ inflight[r].at = "call_next"}
Left(app) ==
    {r \in DOMAIN inflight : inflight[r].app = app /\ inflight[r].at = "done"}

\* The request's path is the metrics-scrape path, trailing or doubled
\* slashes apart.
OnScrapePath(r) == inflight[r].path \in {"/metrics", "/metrics/", "//metrics"}

\* The in-progress gauge over all its label sets.
InProgress ==
    http.HTTP_REQUESTS_IN_PROGRESS["GET"] + http.HTTP_REQUESTS_IN_PROGRESS["POST"]

\* C22 (as claimed): under any interleaving the in-progress gauge equals the
\* number of requests inside the instrumentation middleware; it is never
\* negative and is 0 when no request is in flight.
C22_GaugeCountsRequestsInside ==
    /\ InProgress = Cardinality(Inside("setup_metrics"))
    /\ http.ACTIVE_REQUESTS = Cardinality(Inside("main"))
    /\ InProgress >= 0 /\ http.ACTIVE_REQUESTS >= 0

\* C22 (amended): under any interleaving the in-progress gauge of
\* prometheus_middleware equals the number of requests inside it on a path
\* other than the metrics-scrape path, per method and in total, and the
\* gauge of metrics_middleware equals the number of all requests inside it;
\* neither is ever negative, each request's increment is matched by one
\* decrement whether its handler returns or raises, and the gauges are 0
\* when no request is in flight.
C22_GaugeCountsInstrumentedRequests ==
    /\ \A m \in Methods :
         http.HTTP_REQUESTS_IN_PROGRESS[m] =
           Cardinality({r \in Inside("setup_metrics") :
                           inflight[r].method = m /\ ~OnScrapePath(r)})
    /\ http.ACTIVE_REQUESTS = Cardinality(Inside("main"))
    /\ InProgress >= 0 /\ http.ACTIVE_REQUESTS >= 0
    /\ (Inside("setup_metrics") \cup Inside("main") = {})
         => (InProgress = 0 /\ http.ACTIVE_REQUESTS = 0)

\* C22 witness: a request whose handler raised has left the middleware
\* while another one is still inside it.
C22_Witness ==
    \E r, q \in DOMAIN inflight :
        /\ inflight[r].app = inflight[q].app
        /\ inflight[r].at = "done" /\ inflight[r].outcome.raised /\ ~OnScrapePath(r)
        /\ inflight[q].at = "call_next" /\ ~OnScrapePath(q)

\* The status class a finished request is counted under.
CountedUnder(r) ==
    IF inflight[r].outcome.raised THEN "5xx"
    ELSE IF inflight[r].outcome.status_code = 200 THEN "2xx"
    ELSE "4xx"

\* The label sets a metric was touched for, as a set of positions.
Touches(metric, labels) == {i \in DOMAIN metric : metric[i] = labels}

\* C23: every request of prometheus_middleware on a path other than the
\* metrics-scrape path adds exactly 1 to http_requests_total, under its
\* method, normalized path and status class (5xx when the handler raised),
\* and one observation to the duration histogram; a request on the
\* metrics-scrape path changes none of the HTTP request metrics.
C23_EveryRequestCountedOnce ==
    LET counted == {r \in Left("setup_metrics") : ~OnScrapePath(r)}
        labels(r) == <<inflight[r].method, "/piper/health", CountedUnder(r)>>
    IN  /\ Len(http.HTTP_REQUESTS_TOTAL) = Cardinality(counted)
        /\ Len(http.HTTP_REQUEST_DURATION_SECONDS) = Cardinality(counted)
        /\ \A r \in counted :
             Cardinality(Touches(http.HTTP_REQUESTS_TOTAL, labels(r)))
               = Cardinality({q \in counted : labels(q) = labels(r)})
        /\ (\A r \in DOMAIN inflight :
               inflight[r].app = "setup_metrics" => OnScrapePath(r))
             => (http.HTTP_REQUESTS_TOTAL = <<>>
                   /\ http.HTTP_REQUEST_DURATION_SECONDS = <<>>
                   /\ InProgress = 0)

\* C23 witness: a request whose handler raised was counted under 5xx, and a
\* scrape request has passed as well.
C23_Witness ==
    /\ Touches(http.HTTP_REQUESTS_TOTAL, <<"GET", "/piper/health", "5xx">>) # {}
    /\ \E r \in Left("setup_metrics") : OnScrapePath(r)
    /\ Len(http.HTTP_REQUESTS_TOTAL) = 1

\* C24 (as claimed): no metric helper propagates an exception raised while
\* it touches a metric: increment_counter, observe_histogram, set_gauge, the
\* tracking helpers and the active-generation increment and decrement
\* helpers all return normally when the metric operation fails.
C24_HelpersNeverRaise ==
    helper.name # "none" => helper.outcome = "returned"

----------------------------------------------------------------------------
(* Claims about the ad hoc collector                                        *)

\* The n most recent entries of a sequence, oldest first.
Recent(seq, n) ==
    LET m == IF Len(seq) < n THEN Len(seq) ELSE n
    IN  [i \in 1..m |-> seq[Len(seq) - m + i]]

\* C25: after any sequence of record_request calls each rolling window
\* holds exactly the values of the most recent min(k, capacity) successful
\* requests in arrival order, k the successes since the last reset; the two
\* windows have equal length; the error list holds the at most 10 most
\* recent failures recorded with a message; get_metrics reports the last 5
\* of them; and reset() empties the counters, the windows and the list.
C25_WindowsHoldMostRecent ==
    LET times == [i \in DOMAIN history.successes |-> history.successes[i][1]]
        sizes == [i \in DOMAIN history.successes |-> history.successes[i][2]]
    IN  /\ collector.generation_times = Recent(times, collector.window_size)
        /\ collector.request_sizes = Recent(sizes, collector.window_size)
        /\ Len(collector.generation_times) = Len(collector.request_sizes)
        /\ collector.recent_errors = Recent(history.failures, 10)
        /\ seen # NoSnapshot => seen[1].recent_errors = Recent(history.failures, 5)
        /\ (history.resets > 0 /\ history.calls = 0) =>
             /\ collector.request_count = 0
             /\ collector.success_count = 0
             /\ collector.error_count = 0
             /\ DOMAIN collector.language_stats = {}
             /\ collector.generation_times = <<>>
             /\ collector.request_sizes = <<>>
             /\ collector.recent_errors = <<>>

\* C25 witness: more successes than the window holds and more than 10
\* failures with a message were recorded, and get_metrics was called.
C25_Witness ==
    /\ Len(history.successes) > collector.window_size
    /\ Len(history.failures) > 10
    /\ seen # NoSnapshot

\* The sum of the per-language counters of a get_metrics result.
SumLanguages(stats) ==
    (IF "en" \in DOMAIN stats THEN stats["en"] ELSE 0)
      + (IF "fr" \in DOMAIN stats THEN stats["fr"] ELSE 0)

\* C26: under any interleaving of concurrent record_request, get_metrics
\* and reset calls, get_metrics never sees a partial update: the total it
\* reports is successful + failed and the sum of the per-language counters;
\* and no update is lost: n record_request calls with no reset leave the
\* total at n.
C26_NoLostOrPartialUpdate ==
    /\ seen # NoSnapshot =>
         /\ seen[1].total = seen[1].successful + seen[1].failed
         /\ seen[1].total = SumLanguages(seen[1].languages)
    /\ (\A t \in DOMAIN threads : threads[t].op # "reset" /\ threads[t].pc = "done") =>
         collector.request_count =
           Cardinality({t \in DOMAIN threads : threads[t].op \in RecordKinds})

\* C26 witness: two record_request calls and a get_metrics call have all
\* returned, and get_metrics ran between the two.
C26_Witness ==
    /\ \A t \in DOMAIN threads : threads[t].pc = "done"
    /\ collector.request_count = 2
    /\ seen # NoSnapshot
    /\ seen[1].total = 1

----------------------------------------------------------------------------
(* Claims about startup, health and shutdown                                *)

\* generate_speech accepts the language: its language check passes.
Accepted(language) ==
    generate_speech(1, Text(1, "plain"), language, 10,
                    [text_write |-> "ok", engine |-> "ok", wav_write |-> "ok",
                     ffmpeg |-> "ok", errtext |-> "Killed"],
                    tts_service.loaded_models, {}).outcome # "ValueError"

\* C27 (as claimed): a failure while preparing one language's model never
\* prevents the preparation of the remaining languages nor the completion
\* of initialize, and every language whose preparation completed without
\* error is afterwards accepted by generate_speech.
C27_PreparedLanguagesAccepted ==
    startup.phase = "serving" =>
        /\ startup.attempted = Range(language_models)
        /\ tts_service.ready
        /\ \A l \in startup.successful_models : Accepted(l)

====
